---- MODULE Spec2Model ----
(***************************************************************************)
(* A model of the SandboxFusion dataset-and-client layer:                  *)
(*   - the client SDK (scripts/client/src/sandbox_fusion/client.py):       *)
(*     run_code, run_jupyter, submit, submit_safe under the tenacity retry *)
(*     policy, and the pure classifier summary_run_code_result;            *)
(*   - evaluate_single of the Aider, LiveCodeBench and MHPP adapters;      *)
(*   - the LiveCodeBench driver script TEST_CODE and the run_test harness  *)
(*     it calls (TEST_UTIL).                                               *)
(* Each part has its own specification over the module's variables; the    *)
(* variables of the other parts are held at their initial values.          *)
(***************************************************************************)
EXTENDS Integers, Sequences, FiniteSets, TLC

None == "None"

\* Optional values: <<>> is an absent value, <<x>> a present one.
Absent == <<>>

Present(x) == <<x>>

TheValue(o) == o[1]

(***************************************************************************)
(* The state.                                                              *)
(***************************************************************************)

\* The client SDK: one retried call per caller.
VARIABLES
    pc,              \* per caller: "idle", "attempt", "sleep", "returned", "raised"
    op,              \* per caller: the operation called
    max_attempts,    \* per caller: the max_attempts argument
    attempt_number,  \* per caller: tenacity's retry_state.attempt_number
    requests,        \* per caller: HTTP requests issued so far
    log,             \* per caller: the log events of the call, in order
    lastReply,       \* per caller: the endpoint's reply to the latest request (ghost)
    priorNon2xx,     \* per caller: every earlier reply had a non-2xx status (ghost)
    outcome,         \* per caller: the call's return value or raised exception
    endpoint,        \* per caller: the endpoint argument of the call
    targets,         \* per caller: the URLs of the HTTP requests issued, in order
    SANDBOX_ENDPOINT, \* the module global
    environ,         \* SANDBOX_FUSION_ENDPOINT in the environment at import (ghost)
    lastSet          \* the argument of the latest set_endpoint call, if any (ghost)

clientVars == <<pc, op, max_attempts, attempt_number, requests, log, lastReply,
                priorNon2xx, outcome, endpoint, targets, SANDBOX_ENDPOINT,
                environ, lastSet>>

\* summary_run_code_result.
VARIABLES
    sumResult,       \* the RunCodeResponse passed to summary_run_code_result
    sumMapping,      \* the SummaryMapping passed to it
    sumOutcome       \* what the call did: nothing yet, a label, or a raise

summaryVars == <<sumResult, sumMapping, sumOutcome>>

\* evaluate_single of an adapter.
VARIABLES
    evPc,            \* "idle", "db" (awaiting the row), "sandbox" (awaiting the
                     \* sandbox), "returned", "raised"
    evAdapter,       \* the adapter whose evaluate_single runs
    evRequest,       \* the SubmitRequest: id, completion and config.run_timeout
    evContent,       \* the content column of the row read
    evTest,          \* the test column of the row read, decoded
    evSent,          \* the RunCodeRequest passed to run_code_in_sandbox, once built
    evCode,          \* the extracted code
    evTrace,         \* the steps taken so far, in order
    evResponse,      \* the RunCodeResponse of the sandbox, once it arrived
    evOutcome        \* the EvalResult returned or the fault raised

adapterVars == <<evPc, evAdapter, evRequest, evContent, evTest, evSent, evCode,
                 evTrace, evResponse, evOutcome>>

\* The LiveCodeBench driver and run_test.
VARIABLES
    hPc,             \* "init", "compile", "getattr", "tests", "returned" (run_test
                     \* returned to the driver), "exited" (the driver called
                     \* sys.exit), "aborted" (an uncaught fault ended the process)
    which_type,      \* the mode of the sample
    nTests,          \* len(in_outs["inputs"])
    index,           \* the index of the next test case
    results,         \* run_test's results list
    metadata,        \* the diagnostic run_test returns
    alarm,           \* an alarm armed by signal.alarm(timeout) is pending
    invoked,         \* the test indices the entry point was invoked on (ghost)
    hFault,          \* the fault the candidate raised in its latest execution (ghost)
    printed,         \* the driver printed the diagnostic
    exitCode,        \* the exit status of the driver process, once it ended
    candidate,       \* what the candidate source holds and defines
    built,           \* the candidate's module and Solution instance were built
                     \* without a fault of the candidate (ghost)
    tmp              \* the object the entry point is looked up on

harnessVars == <<hPc, which_type, nTests, index, results, metadata, alarm, invoked,
                 hFault, printed, exitCode, candidate, built, tmp>>

\* The grading of one standard-input test case by run_test.
VARIABLES
    raw_inputs,      \* the test case's input as stored: a string or a list of lines
    raw_outputs,     \* the test case's expected output as stored, likewise
    raw_true_output, \* the text the candidate wrote to standard output
    graded           \* what the loop body did: nothing yet, appended true and went
                     \* on, returned 'Wrong Answer', or raised

gradeVars == <<raw_inputs, raw_outputs, raw_true_output, graded>>

\* The formatting of one prompt by an adapter's _generate_single_prompt.
VARIABLES
    fmtDataset,      \* the adapter: "MHPP" or "LiveCodeBench"
    fmtRow,          \* the row read: its content and test columns
    fmtConfig,       \* the TestConfig: extra.pretrain_mode and is_fewshot
    fmtBuilt,        \* the question and starter code the content was built from (ghost)
    fmtExtracted,    \* what extract_question did: nothing yet, its pair, or a raise
    fmtPrompt        \* what the call did: nothing yet, the prompt returned, or a raise

promptVars == <<fmtDataset, fmtRow, fmtConfig, fmtBuilt, fmtExtracted, fmtPrompt>>

\* The standard-input source transform of run_test.
VARIABLES
    srcTest,         \* test: the candidate source passed to run_test
    srcNewTest       \* new_test: the text run_test adds to sol, once assembled

transformVars == <<srcTest, srcNewTest>>

vars == <<clientVars, summaryVars, adapterVars, harnessVars, gradeVars, promptVars,
          transformVars>>

\* The variables each part leaves alone.
notClientVars ==
    <<summaryVars, adapterVars, harnessVars, gradeVars, promptVars, transformVars>>

notSummaryVars ==
    <<clientVars, adapterVars, harnessVars, gradeVars, promptVars, transformVars>>

notAdapterVars ==
    <<clientVars, summaryVars, harnessVars, gradeVars, promptVars, transformVars>>

notHarnessVars ==
    <<clientVars, summaryVars, adapterVars, gradeVars, promptVars, transformVars>>

notGradeVars ==
    <<clientVars, summaryVars, adapterVars, harnessVars, promptVars, transformVars>>

notPromptVars ==
    <<clientVars, summaryVars, adapterVars, harnessVars, gradeVars, transformVars>>

notTransformVars ==
    <<clientVars, summaryVars, adapterVars, harnessVars, gradeVars, promptVars>>

(***************************************************************************)
(* PART 1.  The client SDK: retried operations.                            *)
(***************************************************************************)

\* Bound on the max_attempts argument a caller passes.
MaxAttempts == 3

\* The concurrent callers of the SDK; each makes one call.
Callers == {"c1", "c2"}

\* request.id of the request each caller passes.
RequestId(c) == IF c = "c1" THEN "id1" ELSE "id2"

Ops == {"run_code", "run_jupyter", "submit", "submit_safe"}

\* RunStatus of a decoded RunCodeResponse / RunJupyterResponse.
RunStatus == {"Success", "Failed", "SandboxError"}

\* resp.message values the server may send.
Messages == {"m1", "m2"}

\* What the endpoint may answer to one HTTP request.
\*   transport : requests.post raises (connection refused, ...)
\*   http      : a reply with a status code (500, 200, or 201, a 2xx code
\*               other than 200); body "garbage" does not decode as JSON of
\*               the response type; otherwise the body is a response with a
\*               status (and a message).
Replies ==
    {[kind |-> "transport", code |-> 0, body |-> None, message |-> None]}
    \cup {[kind |-> "http", code |-> 500, body |-> "text", message |-> None]}
    \cup {[kind |-> "http", code |-> 200, body |-> "garbage", message |-> None]}
    \cup {[kind |-> "http", code |-> 200, body |-> s, message |-> None] :
             s \in {"Success", "Failed"}}
    \cup {[kind |-> "http", code |-> 201, body |-> "Success", message |-> None]}
    \cup {[kind |-> "http", code |-> 200, body |-> "SandboxError", message |-> m] :
             m \in Messages}

\* The HTTP status classes of a reply that arrived.
Is2xx(reply) == reply.kind = "http" /\ reply.code >= 200 /\ reply.code <= 299

Non2xx(reply) == reply.kind = "http" /\ ~Is2xx(reply)

\* An exception raised by attempt n of a call.
Exc(what, detail, n) == [tag |-> "exc", what |-> what, detail |-> detail, attempt |-> n]

\* A value returned by an attempt.
Val(v) == [tag |-> "val", value |-> v]

IsExc(o) == o.tag = "exc"

\* The EvalResult the /submit endpoint sends for request id i with verdict s.
ServerEvalResult(i, s) ==
    [id |-> i, accepted |-> (s = "Success"), extracted_code |-> "code", tests |-> <<s>>]

\* The mutant of _run_code used by C4: the SandboxError check is missing.
RunCodeBodyNoSandboxCheck(reply, n) ==
    IF reply.kind = "transport" THEN Exc("ConnectionError", None, n)
    ELSE IF reply.code # 200 THEN Exc("Faas api responded with code", reply.body, n)
    ELSE IF reply.body = "garbage" THEN Exc("decode", None, n)
    ELSE Val([status |-> reply.body, message |-> reply.message])

\* _run_code / _run_jupyter: one attempt, given the endpoint's reply.
RunCodeBody(reply, n) ==
    IF reply.kind = "transport" THEN Exc("ConnectionError", None, n)
    ELSE IF reply.code # 200 THEN Exc("Faas api responded with code", reply.body, n)
    ELSE IF reply.body = "garbage" THEN Exc("decode", None, n)
    ELSE IF reply.body = "SandboxError"
         THEN Exc("Sandbox responded with error", reply.message, n)
    ELSE Val([status |-> reply.body, message |-> reply.message])

\* _submit: one attempt, given the endpoint's reply; no SandboxError check.
SubmitBody(reply, n, i) ==
    IF reply.kind = "transport" THEN Exc("ConnectionError", None, n)
    ELSE IF reply.code # 200 THEN Exc("Faas api responded with code", reply.body, n)
    ELSE IF reply.body = "garbage" THEN Exc("decode", None, n)
    ELSE Val(ServerEvalResult(i, reply.body))

\* The decorated function of operation o.
AttemptBody(o, reply, n, i) ==
    IF o \in {"run_code", "run_jupyter"} THEN RunCodeBody(reply, n)
    ELSE SubmitBody(reply, n, i)

\* A mutant of the stop condition: gives up one attempt early.
StopAfterAttemptEarly(n, m) == n + 1 >= m

\* stop=stop_after_attempt(max_attempts): stop once attempt_number >= max_attempts.
StopAfterAttempt(n, m) == n >= m

\* A mutant of on_retry_error: tenacity's own RetryError is raised in place of
\* the exception of the last attempt.
OnRetryErrorWrapped(e) == Exc("RetryError", e.detail, e.attempt)

\* on_retry_error: raises the exception of the retry state's outcome, which is
\* the outcome of the last attempt.
OnRetryError(e) == e

\* A mutant of submit_safe's fallback: the server-side id is lost.
RejectedResultNoId(i) ==
    [id |-> None, accepted |-> FALSE, extracted_code |-> "", tests |-> <<>>]

\* submit_safe's fallback EvalResult.
RejectedResult(i) ==
    [id |-> i, accepted |-> FALSE, extracted_code |-> "", tests |-> <<>>]

NoOutcome == [tag |-> "none"]

\* os.environ.get('SANDBOX_FUSION_ENDPOINT', 'http://localhost:8000')
OsEnvironGet(env) == IF env = Absent THEN "http://localhost:8000" ELSE TheValue(env)

\* The endpoint arguments callers pass ('' is the default of the parameter),
\* the values set_endpoint is called with, and the values of the environment.
Endpoints == {"", "http://a"}

SetEndpoints == {"", "http://b"}

Environs == {Absent, Present("http://env")}

\* The path each operation posts to; submit_safe calls submit.
Path(o) == IF o = "submit_safe" THEN "/submit" ELSE "/" \o o

\* A mutant of the selection: the per-call endpoint is ignored.
RequestUrlGlobalOnly(e, global, o) == global \o Path(o)

\* f'{endpoint or SANDBOX_ENDPOINT}/<operation>', evaluated when the request
\* is issued.
RequestUrl(e, global, o) == (IF e # "" THEN e ELSE global) \o Path(o)

\* get_prompts / get_prompt_by_id: the single request, given the reply.
FetchOps == {"get_prompts", "get_prompt_by_id"}

FetchBody(reply) ==
    IF reply.kind = "transport" THEN Exc("ConnectionError", None, 1)
    ELSE IF reply.code # 200 THEN Exc("Faas api responded with code", reply.body, 1)
    ELSE IF reply.body = "garbage" THEN Exc("decode", None, 1)
    ELSE Val("prompts")

NoReply == [kind |-> "none", code |-> 0, body |-> None, message |-> None]

\* The state at import, before any call.
ClientImported ==
    /\ pc = [c \in Callers |-> "idle"]
    /\ op = [c \in Callers |-> None]
    /\ max_attempts = [c \in Callers |-> 0]
    /\ attempt_number = [c \in Callers |-> 0]
    /\ requests = [c \in Callers |-> 0]
    /\ log = [c \in Callers |-> <<>>]
    /\ lastReply = [c \in Callers |-> NoReply]
    /\ priorNon2xx = [c \in Callers |-> TRUE]
    /\ outcome = [c \in Callers |-> NoOutcome]
    /\ endpoint = [c \in Callers |-> ""]
    /\ targets = [c \in Callers |-> <<>>]
    /\ lastSet = Absent
    /\ environ \in Environs
    /\ SANDBOX_ENDPOINT = OsEnvironGet(environ)

\* The state at import when the environment does not name an endpoint.
ClientInit == ClientImported /\ environ = Absent

\* A mutant of the retry state: one state shared by all the calls in progress,
\* holding the largest attempt number.
AttemptNumberShared(counters, c) ==
    CHOOSE n \in {counters[d] : d \in Callers} : \A d \in Callers : counters[d] <= n

\* retry_state.attempt_number of the call of caller c: every call decorates a
\* function of its own, and every call of the wrapper has its own retry state.
AttemptNumber(counters, c) == counters[c]

\* A caller enters run_code / run_jupyter / submit / submit_safe.
Call(c, o, m, e) ==
    /\ pc[c] = "idle"
    /\ pc' = [pc EXCEPT ![c] = "attempt"]
    /\ op' = [op EXCEPT ![c] = o]
    /\ max_attempts' = [max_attempts EXCEPT ![c] = m]
    /\ attempt_number' = [attempt_number EXCEPT ![c] = 1]
    /\ endpoint' = [endpoint EXCEPT ![c] = e]
    /\ UNCHANGED <<requests, log, lastReply, priorNon2xx, outcome, targets,
                   SANDBOX_ENDPOINT, environ, lastSet>>
    /\ UNCHANGED notClientVars

\* One attempt of the wrapped function: the HTTP request, the decoding of the
\* reply, and tenacity's decision on the attempt's outcome.
Attempt(c, reply) ==
    LET n == AttemptNumber(attempt_number, c)
        o == AttemptBody(op[c], reply, n, RequestId(c))
    IN
    /\ pc[c] = "attempt"
    /\ requests' = [requests EXCEPT ![c] = @ + 1]
    /\ targets' = [targets EXCEPT ![c] =
                      Append(@, RequestUrl(endpoint[c], SANDBOX_ENDPOINT, op[c]))]
    /\ lastReply' = [lastReply EXCEPT ![c] = reply]
    /\ priorNon2xx' = [priorNon2xx EXCEPT ![c] =
                          IF n = 1 THEN TRUE ELSE @ /\ Non2xx(lastReply[c])]
    /\ IF ~IsExc(o)
       THEN \* the attempt returned: the call returns its value
            /\ pc' = [pc EXCEPT ![c] = "returned"]
            /\ outcome' = [outcome EXCEPT ![c] = o]
            /\ UNCHANGED log
       ELSE IF StopAfterAttempt(n, max_attempts[c])
       THEN \* retry_error_callback=on_retry_error: logger.error, raise e
            IF op[c] = "submit_safe"
            THEN \* except Exception: logger.warning, return the rejected result
                 /\ pc' = [pc EXCEPT ![c] = "returned"]
                 /\ outcome' = [outcome EXCEPT ![c] = Val(RejectedResult(RequestId(c)))]
                 /\ log' = [log EXCEPT ![c] = @ \o <<"error", "safe_warning">>]
            ELSE /\ pc' = [pc EXCEPT ![c] = "raised"]
                 /\ outcome' = [outcome EXCEPT ![c] = OnRetryError(o)]
                 /\ log' = [log EXCEPT ![c] = Append(@, "error")]
       ELSE \* before_sleep=before_retry_sleep: logger.warning, then sleep
            /\ pc' = [pc EXCEPT ![c] = "sleep"]
            /\ log' = [log EXCEPT ![c] = Append(@, "retry_warning")]
            /\ UNCHANGED outcome
    /\ UNCHANGED <<op, max_attempts, attempt_number, endpoint, SANDBOX_ENDPOINT,
                   environ, lastSet>>
    /\ UNCHANGED notClientVars

\* The backoff sleep (wait_exponential_jitter) ends; the next attempt starts.
Wake(c) ==
    /\ pc[c] = "sleep"
    /\ pc' = [pc EXCEPT ![c] = "attempt"]
    /\ attempt_number' = [attempt_number EXCEPT ![c] = @ + 1]
    /\ UNCHANGED <<op, max_attempts, requests, log, lastReply, priorNon2xx, outcome,
                   endpoint, targets, SANDBOX_ENDPOINT, environ, lastSet>>
    /\ UNCHANGED notClientVars

\* set_endpoint(e)
SetEndpoint(e) ==
    /\ SANDBOX_ENDPOINT' = e
    /\ lastSet' = Present(e)
    /\ UNCHANGED <<pc, op, max_attempts, attempt_number, requests, log, lastReply,
                   priorNon2xx, outcome, endpoint, targets, environ>>
    /\ UNCHANGED notClientVars

\* get_prompts / get_prompt_by_id: one request, no retry.
Fetch(c, o, e, reply) ==
    /\ pc[c] = "idle"
    /\ op' = [op EXCEPT ![c] = o]
    /\ endpoint' = [endpoint EXCEPT ![c] = e]
    /\ requests' = [requests EXCEPT ![c] = @ + 1]
    /\ targets' = [targets EXCEPT ![c] = Append(@, RequestUrl(e, SANDBOX_ENDPOINT, o))]
    /\ lastReply' = [lastReply EXCEPT ![c] = reply]
    /\ outcome' = [outcome EXCEPT ![c] = FetchBody(reply)]
    /\ pc' = [pc EXCEPT ![c] = IF IsExc(FetchBody(reply)) THEN "raised" ELSE "returned"]
    /\ UNCHANGED <<max_attempts, attempt_number, log, priorNon2xx, SANDBOX_ENDPOINT,
                   environ, lastSet>>
    /\ UNCHANGED notClientVars

\* The replies and the max_attempts argument of the calls whose endpoints are
\* followed.
EndpointReplies ==
    {r \in Replies : r.kind = "transport" \/ (r.code = 200 /\ r.body = "Success")}

EndpointAttempts == 2

\* The calls with every endpoint argument, set_endpoint running between them.
EndpointNext ==
    \/ \E c \in Callers, o \in {"run_code", "submit_safe"}, e \in Endpoints :
           Call(c, o, EndpointAttempts, e)
    \/ \E c \in Callers, reply \in EndpointReplies : Attempt(c, reply)
    \/ \E c \in Callers : Wake(c)
    \/ \E e \in SetEndpoints : SetEndpoint(e)
    \/ \E c \in Callers, o \in FetchOps, e \in Endpoints, reply \in EndpointReplies :
           Fetch(c, o, e, reply)

\* The retried calls, made with the default endpoint argument.
ClientNext ==
    \/ \E c \in Callers, o \in Ops, m \in 1..MaxAttempts : Call(c, o, m, "")
    \/ \E c \in Callers, reply \in Replies : Attempt(c, reply)
    \/ \E c \in Callers : Wake(c)

(***************************************************************************)
(* PART 2.  The client SDK: summary_run_code_result.                       *)
(***************************************************************************)

\* CommandRunStatus of one executed command.
CommandRunStatus == {"Success", "Failed", "TimeLimitExceeded"}

\* return_code of a command: absent, zero, or nonzero (an exit code or a signal).
ReturnCodes == {Absent, Present(0), Present(1), Present(-9)}

\* compile_result / run_result of a RunCodeResponse: absent or a command result.
CommandResults ==
    {Absent} \cup {Present([status |-> s, return_code |-> rc]) :
                      s \in CommandRunStatus, rc \in ReturnCodes}

RunCodeResponses ==
    [status : RunStatus, compile_result : CommandResults, run_result : CommandResults]

\* An optional label of a SummaryMapping: unset, the empty string, or a text.
OptionalLabels(name) == {None, "", name}

SummaryMappings ==
    [Success : {"success"}, Failed : {"failed"},
     CompileFailed : OptionalLabels("compile_failed"),
     CompileTimeout : OptionalLabels("compile_timeout"),
     RunFailed : OptionalLabels("run_failed"),
     RunTimeout : OptionalLabels("run_timeout")]

Return(x) == [tag |-> "return", value |-> x]

Raise(msg) == [tag |-> "raise", msg |-> msg]

\* A mutant of Python's `or`: only None is replaced.
PyOrNoneOnly(a, b) == IF a = None THEN b ELSE a

\* Python's `a or b` on optional strings: b when a is falsy (None or '').
PyOr(a, b) == IF a = None \/ a = "" THEN b ELSE a

\* A mutant of the compile-error branch: the return code is read before the
\* status is compared with TimeLimitExceeded.
CompileErrorReturnCodeFirst(compile_result, mapping) ==
    IF compile_result.return_code = Absent
    THEN Raise("invalid sandbox result: no return code")
    ELSE IF compile_result.status = "TimeLimitExceeded"
    THEN Return(PyOr(mapping.CompileTimeout, mapping.Failed))
    ELSE IF TheValue(compile_result.return_code) # 0
    THEN Return(PyOr(mapping.CompileFailed, mapping.Failed))
    ELSE Raise("invalid sandbox result: compiled succesfully with no run result")

\* summary_run_code_result, the branch `if result.run_result is None`.
CompileError(compile_result, mapping) ==
    IF compile_result.status = "TimeLimitExceeded"
    THEN Return(PyOr(mapping.CompileTimeout, mapping.Failed))
    ELSE IF compile_result.return_code = Absent
    THEN Raise("invalid sandbox result: no return code")
    ELSE IF TheValue(compile_result.return_code) # 0
    THEN Return(PyOr(mapping.CompileFailed, mapping.Failed))
    ELSE Raise("invalid sandbox result: compiled succesfully with no run result")

\* summary_run_code_result, the part that reads run_result.
RunPhase(run_result, mapping) ==
    IF run_result.status = "TimeLimitExceeded"
    THEN Return(PyOr(mapping.RunTimeout, mapping.Failed))
    ELSE IF run_result.return_code = Absent
    THEN Raise("invalid sandbox result: no return code")
    ELSE IF TheValue(run_result.return_code) # 0
    THEN Return(PyOr(mapping.RunFailed, mapping.Failed))
    ELSE Return(mapping.Success)

summary_run_code_result(result, mapping) ==
    IF result.compile_result = Absent /\ result.run_result = Absent
    THEN IF result.status = "Success" THEN Return(mapping.Success)
         ELSE IF result.status = "Failed" THEN Return(mapping.Failed)
         ELSE Raise("unexpected result status")
    ELSE IF result.run_result = Absent
    THEN CompileError(TheValue(result.compile_result), mapping)
    ELSE RunPhase(TheValue(result.run_result), mapping)

SummaryIdle ==
    /\ sumResult = [status |-> "Success", compile_result |-> Absent, run_result |-> Absent]
    /\ sumMapping = [Success |-> "success", Failed |-> "failed", CompileFailed |-> None,
                     CompileTimeout |-> None, RunFailed |-> None, RunTimeout |-> None]
    /\ sumOutcome = NoOutcome

SummaryInit ==
    /\ sumResult \in RunCodeResponses
    /\ sumMapping \in SummaryMappings
    /\ sumOutcome = NoOutcome

\* The call summary_run_code_result(result, mapping).
Summarise ==
    /\ sumOutcome = NoOutcome
    /\ sumOutcome' = summary_run_code_result(sumResult, sumMapping)
    /\ UNCHANGED <<sumResult, sumMapping>>
    /\ UNCHANGED notSummaryVars

SummaryNext == Summarise

(***************************************************************************)
(* PART 3.  evaluate_single of the three dataset adapters.                 *)
(***************************************************************************)

Adapters == {"Aider", "LiveCodeBench", "MHPP"}

\* The ids of the SubmitRequests.
RequestIds == {"id1", "id2"}

\* A text (a completion or a row's content) is described by the content of
\* its first fenced python block: None when it has no such block.
Fences == {None, "", "  ", "x=1", "#<INSERT>"}

\* The content column of the stored rows: with or without a fenced block.
RowFences == {None, "def f(): pass"}

\* default_extract_helper(text, 'python'): the content of the first fenced
\* block, '' when there is none.
default_extract_helper(fence) == IF fence = None THEN "" ELSE fence

\* The first fenced block of a + '\n' + b.
ConcatFence(a, b) == IF a # None THEN a ELSE b

\* code.strip() is empty.
IsBlank(code) == code \in {"", "  "}

\* The outcome of the database read and of the sandbox invocation.
DbOutcomes == {"row", "NotFound"}

SandboxOutcomes == RunStatus \cup {"TransportError"}

\* A mutant of the verdict: everything that is not Failed is accepted.
AcceptedNotFailed(status) == status # "Failed"

\* accepted = result.status == RunStatus.Success
Accepted(status) == status = "Success"

\* A mutant of MHPP's retry: only an empty first result is retried, not a
\* whitespace-only one.
ExtractCodeRetryEmptyOnly(adapter, completion, content) ==
    LET first == default_extract_helper(completion)
    IN IF adapter = "MHPP" /\ first = ""
       THEN [code |-> default_extract_helper(ConcatFence(content, completion)),
             calls |-> 2]
       ELSE [code |-> first, calls |-> 1]

\* The extraction step of evaluate_single: the extracted code and the number
\* of calls of default_extract_helper.  MHPP extracts a second time, from
\* content + '\n' + completion, when the first result is blank.
ExtractCode(adapter, completion, content) ==
    LET first == default_extract_helper(completion)
    IN IF adapter = "MHPP" /\ IsBlank(first)
       THEN [code |-> default_extract_helper(ConcatFence(content, completion)),
             calls |-> 2]
       ELSE [code |-> first, calls |-> 1]

\* config.run_timeout of the request: absent, or a number of seconds.
RunTimeouts == {Absent, Present(0), Present(1), Present(6), Present(30)}

\* A base64 text, described by the text it encodes.
Base64(text) == [encoding |-> "base64", of |-> text]

\* The test column of a stored row, decoded.  Aider: the driver template `code`
\* and the `asset` files (name and base64 content); MHPP: the test text;
\* LiveCodeBench: the test cases, of which the adapter uses the number.
NoTest == [code |-> "", asset |-> {}, text |-> "", test_cnt |-> 0]

AiderTests ==
    {[code |-> c, asset |-> a, text |-> "", test_cnt |-> 0] :
         c \in {"print('before');#<INSERT>;print('after')", "#<INSERT>\n#<INSERT>",
                "assert True"},
         a \in {{}, {<<"util.py", Base64("y=2")>>}}}

MHPPTests ==
    {[code |-> "", asset |-> {}, text |-> t, test_cnt |-> 0] :
         t \in {"assert f(1) == 2", "assert f(1) == 2\nassert f(2) == 3"}}

LiveCodeBenchTests ==
    {[code |-> "", asset |-> {}, text |-> "", test_cnt |-> n] :
         n \in {0, 1, 10, 44, 45, 60}}

StoredTests(adapter) ==
    IF adapter = "Aider" THEN AiderTests
    ELSE IF adapter = "MHPP" THEN MHPPTests
    ELSE LiveCodeBenchTests

RECURSIVE ReplaceFirst(_, _, _)
\* A mutant of str.replace: only the first occurrence is replaced.
ReplaceFirst(s, old, new) ==
    IF Len(s) < Len(old) THEN s
    ELSE IF SubSeq(s, 1, Len(old)) = old
    THEN new \o SubSeq(s, Len(old) + 1, Len(s))
    ELSE SubSeq(s, 1, 1) \o ReplaceFirst(SubSeq(s, 2, Len(s)), old, new)

RECURSIVE Replace(_, _, _)
\* s.replace(old, new): every occurrence of old, from left to right; the text
\* put in is not searched again.
Replace(s, old, new) ==
    IF Len(s) < Len(old) THEN s
    ELSE IF SubSeq(s, 1, Len(old)) = old
    THEN new \o Replace(SubSeq(s, Len(old) + 1, Len(s)), old, new)
    ELSE SubSeq(s, 1, 1) \o Replace(SubSeq(s, 2, Len(s)), old, new)

\* A mutant of `or`: only an absent value is replaced by the default.
RunTimeoutOrAbsentOnly(run_timeout, default) ==
    IF run_timeout = Absent THEN default ELSE TheValue(run_timeout)

\* config.run_timeout or default: Python's `or` takes the default for None
\* and for 0.
RunTimeoutOr(run_timeout, default) ==
    IF run_timeout = Absent \/ run_timeout = Present(0) THEN default
    ELSE TheValue(run_timeout)

\* A mutant of the aggregate budget: the cap is missing.
total_timeout_uncapped(timeout, test_cnt) == (timeout + 1) * test_cnt + 5

\* total_timeout = min((timeout + 1) * test_cnt + 5, 315)
total_timeout(timeout, test_cnt) ==
    IF (timeout + 1) * test_cnt + 5 < 315 THEN (timeout + 1) * test_cnt + 5 ELSE 315

\* TEST_CODE % {'timeout': timeout}: the last lines of the driver script.
TEST_CODE(timeout) ==
    "result, metadata = run_test(sample, code, debug=False, timeout="
    \o ToString(timeout) \o ")"

\* The RunCodeRequest each adapter builds.
MakeRunCodeRequest(adapter, code, test, run_timeout) ==
    IF adapter = "Aider"
    THEN [code |-> Replace(test.code, "#<INSERT>", code),
          run_timeout |-> RunTimeoutOr(run_timeout, 60),
          files |-> test.asset]
    ELSE IF adapter = "MHPP"
    THEN [code |-> code \o "\n" \o test.text,
          run_timeout |-> RunTimeoutOr(run_timeout, 20),
          files |-> {}]
    ELSE LET timeout == RunTimeoutOr(run_timeout, 6)
         IN [code |-> TEST_CODE(timeout),
             run_timeout |-> total_timeout(timeout, test.test_cnt),
             files |-> {<<"test_cases.txt", Base64("test_cases")>>,
                        <<"code.py", Base64(code)>>,
                        <<"testing_util.py", Base64("TEST_UTIL")>>}]

\* A mutant of the adapters' sandbox call: a fault is absorbed into a rejected
\* EvalResult, as submit_safe does.
SandboxFaultAbsorbed(id, fault) ==
    Return([id |-> id, accepted |-> FALSE, extracted_code |-> "", tests |-> <<>>])

\* run_code_in_sandbox raised inside evaluate_single: nothing catches it.
SandboxFault(id, fault) == Raise(fault)

\* The EvalResult evaluate_single builds from the sandbox response.
MakeEvalResult(id, code, response) ==
    [id |-> id,
     accepted |-> Accepted(response.status),
     extracted_code |-> code,
     tests |-> <<[passed |-> Accepted(response.status), exec_info |-> response]>>]

AdapterInit ==
    /\ evPc = "idle"
    /\ evAdapter = None
    /\ evRequest = [id |-> None, completion |-> None, run_timeout |-> Absent]
    /\ evContent = None
    /\ evTest = NoTest
    /\ evSent = Absent
    /\ evCode = None
    /\ evTrace = <<>>
    /\ evResponse = Absent
    /\ evOutcome = NoOutcome

\* evaluate_single is called and awaits get_row_by_id_in_table.
EvaluateSingle(adapter, id, completion, run_timeout) ==
    /\ evPc = "idle"
    /\ evPc' = "db"
    /\ evAdapter' = adapter
    /\ evRequest' = [id |-> id, completion |-> completion, run_timeout |-> run_timeout]
    /\ UNCHANGED <<evContent, evTest, evSent, evCode, evTrace, evResponse, evOutcome>>
    /\ UNCHANGED notAdapterVars

\* The database read completes; on a row the adapter extracts the code and
\* awaits run_code_in_sandbox; a NotFound fault propagates.
DbRead(db, content, test) ==
    /\ evPc = "db"
    /\ IF db = "row"
       THEN LET x == ExtractCode(evAdapter, evRequest.completion, content)
            IN /\ evPc' = "sandbox"
               /\ evContent' = content
               /\ evTest' = test
               /\ evCode' = x.code
               /\ evSent' = Present(MakeRunCodeRequest(evAdapter, x.code, test,
                                                       evRequest.run_timeout))
               /\ evTrace' = evTrace \o <<"db_read">>
                                \o [k \in 1..x.calls |-> "extract"]
                                \o <<"sandbox_invoke">>
               /\ UNCHANGED evOutcome
       ELSE /\ evPc' = "raised"
            /\ evOutcome' = Raise(db)
            /\ evTrace' = evTrace \o <<"db_read">>
            /\ UNCHANGED <<evContent, evTest, evSent, evCode>>
    /\ UNCHANGED <<evAdapter, evRequest, evResponse>>
    /\ UNCHANGED notAdapterVars

\* run_code_in_sandbox completes: the response is mapped to the EvalResult,
\* or the fault propagates.
SandboxDone(out, message) ==
    /\ evPc = "sandbox"
    /\ IF out \in RunStatus
       THEN /\ evPc' = "returned"
            /\ evOutcome' = Return(MakeEvalResult(evRequest.id, evCode,
                                       [status |-> out, message |-> message]))
            /\ evTrace' = evTrace \o <<"map_result">>
            /\ evResponse' = Present([status |-> out, message |-> message])
       ELSE LET o == SandboxFault(evRequest.id, out)
            IN /\ evPc' = IF o.tag = "raise" THEN "raised" ELSE "returned"
               /\ evOutcome' = o
               /\ UNCHANGED <<evTrace, evResponse>>
    /\ UNCHANGED <<evAdapter, evRequest, evContent, evTest, evSent, evCode>>
    /\ UNCHANGED notAdapterVars

AdapterNext ==
    \/ \E a \in Adapters, i \in RequestIds, f \in Fences, t \in RunTimeouts :
          EvaluateSingle(a, i, f, t)
    \/ \E db \in DbOutcomes, content \in RowFences, test \in StoredTests(evAdapter) :
          DbRead(db, content, test)
    \/ \E out \in SandboxOutcomes, m \in Messages : SandboxDone(out, m)

(***************************************************************************)
(* PART 4.  The LiveCodeBench driver (TEST_CODE) and harness (run_test).   *)
(***************************************************************************)

\* Bound on the number of test cases of a sample.
MaxTests == 2

CODE_TYPE == {"call_based", "standard_input"}

\* The faults candidate code can raise.  isException: the class derives from
\* Exception (SystemExit and KeyboardInterrupt derive from BaseException only);
\* repr is repr(e); mentionsTimeout records whether repr(e) contains
\* "timeoutexception" when letter case is ignored; code is the exit status a
\* SystemExit asks for.
Faults ==
    {[cls |-> "ValueError", isException |-> TRUE, repr |-> "ValueError()",
      mentionsTimeout |-> FALSE, code |-> 1],
     [cls |-> "TimeoutException", isException |-> TRUE, repr |-> "TimeoutException()",
      mentionsTimeout |-> TRUE, code |-> 1],
     [cls |-> "RuntimeError", isException |-> TRUE,
      repr |-> "RuntimeError('timeoutexception')",
      mentionsTimeout |-> TRUE, code |-> 1],
     [cls |-> "SystemExit", isException |-> FALSE, repr |-> "SystemExit(0)",
      mentionsTimeout |-> FALSE, code |-> 0],
     [cls |-> "SystemExit", isException |-> FALSE, repr |-> "SystemExit(1)",
      mentionsTimeout |-> FALSE, code |-> 1],
     [cls |-> "KeyboardInterrupt", isException |-> FALSE, repr |-> "KeyboardInterrupt()",
      mentionsTimeout |-> FALSE, code |-> 1]}

NoFault ==
    [cls |-> None, isException |-> FALSE, repr |-> "", mentionsTimeout |-> FALSE,
     code |-> 0]

\* What one execution of candidate code does: it completes, leaving an output
\* (a return value or captured text) that the comparison accepts ("ok") or
\* rejects ("wrong"), or it raises a fault after producing such an output.
Behaviours ==
    {[fault |-> NoFault, out |-> o] : o \in {"ok", "wrong"}}
    \cup {[fault |-> f, out |-> o] : f \in Faults, o \in {"ok", "wrong"}}

UpperLetters == "ABCDEFGHIJKLMNOPQRSTUVWXYZ"

LowerLetters == "abcdefghijklmnopqrstuvwxyz"

\* str.lower() of one character.
LowerChar(ch) ==
    IF \E k \in 1..Len(UpperLetters) : SubSeq(UpperLetters, k, k) = ch
    THEN LET k == CHOOSE k \in 1..Len(UpperLetters) : SubSeq(UpperLetters, k, k) = ch
         IN SubSeq(LowerLetters, k, k)
    ELSE ch

RECURSIVE Lower(_)
\* str.lower()
Lower(str) ==
    IF Len(str) = 0 THEN ""
    ELSE LowerChar(SubSeq(str, 1, 1)) \o Lower(SubSeq(str, 2, Len(str)))

\* `sub in str`
Contains(sub, str) ==
    \E k \in 1..(Len(str) - Len(sub) + 1) : SubSeq(str, k, k + Len(sub) - 1) = sub

EmptyMetadata == [error_code |-> 0, error_message |-> ""]

\* A mutant of the classification: repr(e) is not lower-cased.
FaultMetadataCaseSensitive(e) ==
    IF Contains("timeoutexception", e.repr)
    THEN [error_code |-> -3, error_message |-> "Time Limit Exceeded"]
    ELSE [error_code |-> -4, error_message |-> "Runtime Error"]

\* The diagnostic of a fault caught while the candidate ran on a test case.
FaultMetadata(e) ==
    IF Contains("timeoutexception", Lower(e.repr))
    THEN [error_code |-> -3, error_message |-> "Time Limit Exceeded"]
    ELSE [error_code |-> -4, error_message |-> "Runtime Error"]

\* `except Exception` catches the fault.
CaughtAsException(e) == e.isException

\* A mutant of call_method: SystemExit is not swallowed.
CallMethodPlain(b) == b

\* call_method(method, inputs): a SystemExit of the candidate is swallowed and
\* the call completes.
CallMethod(b) ==
    IF b.fault.cls = "SystemExit" THEN [fault |-> NoFault, out |-> b.out] ELSE b

\* The driver's test `any(x != True for x in result)`.
AnyNotTrue(result) == \E k \in 1..Len(result) : result[k] # "True"

\* What the entry-point resolution reads of a candidate source.
\*   mentions : the text 'class Solution' occurs in the source
\*   defines  : the module built from it has a class named Solution
\*   bare     : the module has an attribute named method_name (fn_name, or code
\*              in standard-input mode)
\*   method   : the class Solution has an attribute named fn_name
\* A source can hold the text without defining the class (class SolutionTree,
\* a comment) and define the class without holding the text (two spaces after
\* the keyword).  In standard-input mode the Solution test is not made.
Candidates(type) ==
    IF type = "call_based"
    THEN {c \in [mentions : BOOLEAN, defines : BOOLEAN, bare : BOOLEAN, method : BOOLEAN] :
             c.method => c.defines}
    ELSE [mentions : {FALSE}, defines : {FALSE}, bare : BOOLEAN, method : {FALSE}]

NoCandidate == [mentions |-> FALSE, defines |-> FALSE, bare |-> FALSE, method |-> FALSE]

\* The AttributeError of tmp_sol.Solution() on a module without that class.
NoSolutionAttribute ==
    [cls |-> "AttributeError", isException |-> TRUE,
     repr |-> "AttributeError(\"module 'tmp_sol' has no attribute 'Solution'\")",
     mentionsTimeout |-> FALSE, code |-> 1]

\* A mutant of the choice of tmp: the instance is built when the module has
\* the class, whatever the text of the source.
UsesSolutionIfDefined(type, c) == type = "call_based" /\ c.defines

\* `"class Solution" not in test` is false: tmp is tmp_sol.Solution().
UsesSolution(type, c) == type = "call_based" /\ c.mentions

\* getattr(tmp, method_name) succeeds.
HasEntryPoint(object, c) == IF object = "instance" THEN c.method ELSE c.bare

HarnessInit ==
    /\ candidate = NoCandidate
    /\ built = FALSE
    /\ tmp = None
    /\ hPc = "init"
    /\ which_type = None
    /\ nTests = 0
    /\ index = 0
    /\ results = <<>>
    /\ metadata = EmptyMetadata
    /\ alarm = FALSE
    /\ invoked = <<>>
    /\ hFault = NoFault
    /\ printed = FALSE
    /\ exitCode = Absent

\* A fault leaves run_test and the driver uncaught: the interpreter ends the
\* process, with the status a SystemExit asks for and with status 1 otherwise.
ProcessEnds(e) ==
    /\ hPc' = "aborted"
    /\ exitCode' = Present(IF e.cls = "SystemExit" THEN e.code ELSE 1)

\* A mutant of the returns of run_test: the loop over the test cases goes on.
RunTestKeepsOn(res, meta) ==
    /\ hPc' = "tests"
    /\ results' = res
    /\ metadata' = meta

\* run_test returns results and a diagnostic.
RunTestReturns(res, meta) ==
    /\ hPc' = "returned"
    /\ results' = res
    /\ metadata' = meta

\* The driver reads the sample and the code and enters run_test.
DriverStart(type, n, c) ==
    /\ hPc = "init"
    /\ hPc' = "compile"
    /\ which_type' = type
    /\ nTests' = n
    /\ candidate' = c
    /\ UNCHANGED <<index, results, metadata, alarm, invoked, hFault, printed, exitCode,
                   built, tmp>>
    /\ UNCHANGED notHarnessVars

\* The runtime module is built from the assembled source under the alarm, and
\* in call-based mode the Solution instance when the source holds the text
\* 'class Solution'; b is what the candidate's code does meanwhile.  On a
\* module without the class, tmp_sol.Solution() raises AttributeError.
Compile(b) ==
    LET fault == IF /\ b.fault = NoFault
                    /\ UsesSolution(which_type, candidate)
                    /\ ~candidate.defines
                 THEN NoSolutionAttribute
                 ELSE b.fault
    IN
    /\ hPc = "compile"
    /\ built' = (b.fault = NoFault)
    /\ hFault' = fault
    /\ IF fault = NoFault
       THEN /\ hPc' = "getattr"
            /\ tmp' = IF UsesSolution(which_type, candidate) THEN "instance" ELSE "module"
            /\ alarm' = FALSE
            /\ UNCHANGED <<results, metadata, exitCode>>
       ELSE IF CaughtAsException(fault)
       THEN /\ alarm' = FALSE
            /\ RunTestReturns(Append(results, "-2"),
                              [error_code |-> -1, error_message |-> "Compilation Error"])
            /\ UNCHANGED <<exitCode, tmp>>
       ELSE /\ alarm' = TRUE
            /\ ProcessEnds(fault)
            /\ UNCHANGED <<results, metadata, tmp>>
    /\ UNCHANGED <<which_type, nTests, index, invoked, printed, candidate>>
    /\ UNCHANGED notHarnessVars

\* method = getattr(tmp, method_name)
GetMethod ==
    LET found == HasEntryPoint(tmp, candidate)
    IN
    /\ hPc = "getattr"
    /\ IF found
       THEN /\ hPc' = "tests"
            /\ UNCHANGED <<results, metadata>>
       ELSE RunTestReturns(Append(results, "-2"),
                           [error_code |-> -1, error_message |-> "Unable to extract code"])
    /\ alarm' = IF found THEN alarm ELSE FALSE
    /\ UNCHANGED <<which_type, nTests, index, invoked, hFault, printed, exitCode,
                   candidate, built, tmp>>
    /\ UNCHANGED notHarnessVars

\* One iteration of the loop over the test cases, in call-based mode.
CallBasedTest(b) ==
    /\ hPc = "tests" /\ which_type = "call_based" /\ index < nTests
    /\ invoked' = Append(invoked, index)
    /\ hFault' = b.fault
    /\ IF b.fault = NoFault
       THEN IF b.out = "ok"
            THEN /\ results' = Append(results, "True")
                 /\ alarm' = FALSE
                 /\ index' = index + 1
                 /\ UNCHANGED <<hPc, metadata, exitCode>>
            ELSE \* the Wrong Answer return precedes signal.alarm(0)
                 /\ alarm' = TRUE
                 /\ RunTestReturns(Append(results, "False"),
                                   [error_code |-> -2, error_message |-> "Wrong Answer"])
                 /\ UNCHANGED <<index, exitCode>>
       ELSE IF CaughtAsException(b.fault)
       THEN /\ alarm' = FALSE
            /\ RunTestReturns(Append(results, "-1"), FaultMetadata(b.fault))
            /\ UNCHANGED <<index, exitCode>>
       ELSE /\ alarm' = TRUE
            /\ ProcessEnds(b.fault)
            /\ UNCHANGED <<index, results, metadata>>
    /\ UNCHANGED <<which_type, nTests, printed, candidate, built, tmp>>
    /\ UNCHANGED notHarnessVars

\* One iteration of the loop over the test cases, in standard-input mode.
StandardInputTest(behaviour) ==
    LET b == CallMethod(behaviour)
    IN
    /\ hPc = "tests" /\ which_type = "standard_input" /\ index < nTests
    /\ invoked' = Append(invoked, index)
    /\ hFault' = behaviour.fault
    /\ IF b.fault = NoFault
       THEN /\ alarm' = FALSE
            /\ IF b.out = "ok"
               THEN /\ results' = Append(results, "True")
                    /\ index' = index + 1
                    /\ UNCHANGED <<hPc, metadata, exitCode>>
               ELSE /\ RunTestReturns(Append(results, "False"),
                                      [error_code |-> -2, error_message |-> "Wrong Answer"])
                    /\ UNCHANGED <<index, exitCode>>
       ELSE IF CaughtAsException(b.fault)
       THEN /\ alarm' = FALSE
            /\ RunTestReturns(Append(results, "-1"), FaultMetadata(b.fault))
            /\ UNCHANGED <<index, exitCode>>
       ELSE /\ alarm' = TRUE
            /\ ProcessEnds(b.fault)
            /\ UNCHANGED <<index, results, metadata>>
    /\ UNCHANGED <<which_type, nTests, printed, candidate, built, tmp>>
    /\ UNCHANGED notHarnessVars

\* The loop over the test cases is over: return results, {}.
AllTestsDone ==
    /\ hPc = "tests" /\ index = nTests
    /\ RunTestReturns(results, EmptyMetadata)
    /\ UNCHANGED <<which_type, nTests, index, alarm, invoked, hFault, printed, exitCode,
                   candidate, built, tmp>>
    /\ UNCHANGED notHarnessVars

\* The driver inspects the result of run_test and exits.
DriverExit ==
    /\ hPc = "returned"
    /\ hPc' = "exited"
    /\ IF AnyNotTrue(results)
       THEN printed' = TRUE /\ exitCode' = Present(-1)
       ELSE printed' = FALSE /\ exitCode' = Present(0)
    /\ UNCHANGED <<which_type, nTests, index, results, metadata, alarm, invoked, hFault,
                   candidate, built, tmp>>
    /\ UNCHANGED notHarnessVars

HarnessNext ==
    \/ \E type \in CODE_TYPE, n \in 0..MaxTests :
           \E c \in Candidates(type) : DriverStart(type, n, c)
    \/ \E b \in Behaviours : Compile(b)
    \/ GetMethod
    \/ \E b \in Behaviours : CallBasedTest(b)
    \/ \E b \in Behaviours : StandardInputTest(b)
    \/ AllTestsDone
    \/ DriverExit

(***************************************************************************)
(* PART 5.  run_test: the grading of one standard-input test case.         *)
(***************************************************************************)

\* Python's str methods, on the characters the model's texts are made of.
IsSpace(ch) == ch \in {" ", "\n", "\t"}

Digits == "0123456789"

IsDigit(ch) == \E k \in 1..Len(Digits) : SubSeq(Digits, k, k) = ch

RECURSIVE LStrip(_)
\* str.lstrip()
LStrip(s) ==
    IF Len(s) > 0 /\ IsSpace(SubSeq(s, 1, 1)) THEN LStrip(SubSeq(s, 2, Len(s))) ELSE s

RECURSIVE RStrip(_)
\* str.rstrip()
RStrip(s) ==
    IF Len(s) > 0 /\ IsSpace(SubSeq(s, Len(s), Len(s)))
    THEN RStrip(SubSeq(s, 1, Len(s) - 1))
    ELSE s

\* str.strip()
Strip(s) == RStrip(LStrip(s))

\* The index of the first character of s that satisfies Test, or Len(s) + 1.
FirstIndex(s, Test(_)) ==
    IF \E k \in 1..Len(s) : Test(SubSeq(s, k, k))
    THEN CHOOSE k \in 1..Len(s) :
             /\ Test(SubSeq(s, k, k))
             /\ \A j \in 1..(k - 1) : ~Test(SubSeq(s, j, j))
    ELSE Len(s) + 1

RECURSIVE SplitNewline(_)
\* s.split("\n")
SplitNewline(s) ==
    LET k == FirstIndex(s, LAMBDA ch : ch = "\n")
    IN IF k > Len(s) THEN <<s>>
       ELSE <<SubSeq(s, 1, k - 1)>> \o SplitNewline(SubSeq(s, k + 1, Len(s)))

\* s.splitlines(): as split("\n"), without the empty piece after a final newline.
SplitLines(s) ==
    LET parts == SplitNewline(s)
    IN IF parts[Len(parts)] = "" THEN SubSeq(parts, 1, Len(parts) - 1) ELSE parts

RECURSIVE SplitWhitespace(_)
\* s.split()
SplitWhitespace(s) ==
    LET t == LStrip(s)
        k == FirstIndex(t, IsSpace)
    IN IF t = "" THEN <<>>
       ELSE <<SubSeq(t, 1, k - 1)>> \o SplitWhitespace(SubSeq(t, k, Len(t)))

RECURSIVE Join(_, _)
\* sep.join(lines)
Join(sep, lines) ==
    IF Len(lines) = 0 THEN ""
    ELSE IF Len(lines) = 1 THEN lines[1]
    ELSE lines[1] \o sep \o Join(sep, Tail(lines))

\* list(filter(len, lines))
FilterLen(lines) == SelectSeq(lines, LAMBDA x : Len(x) > 0)

\* [e.strip() for e in lines]
StripAll(lines) == [k \in 1..Len(lines) |-> Strip(lines[k])]

\* str.isdigit()
IsDigits(s) == Len(s) > 0 /\ \A k \in 1..Len(s) : IsDigit(SubSeq(s, k, k))

RECURSIVE IntOf(_)
\* The number a string of digits denotes.
IntOf(s) ==
    IF Len(s) = 0 THEN 0
    ELSE 10 * IntOf(SubSeq(s, 1, Len(s) - 1))
         + (FirstIndex(Digits, LAMBDA ch : ch = SubSeq(s, Len(s), Len(s))) - 1)

\* float(e), in tenths, for the decimal numerals "d..d" and "d..d.d" (surrounding
\* whitespace allowed); Absent stands for the ValueError on any other text.
Float(e) ==
    LET t == Strip(e)
        k == FirstIndex(t, LAMBDA ch : ch = ".")
    IN IF IsDigits(t) THEN Present(10 * IntOf(t))
       ELSE IF /\ k = Len(t) - 1
               /\ IsDigits(SubSeq(t, 1, k - 1))
               /\ IsDigit(SubSeq(t, Len(t), Len(t)))
       THEN Present(10 * IntOf(SubSeq(t, 1, k - 1)) + IntOf(SubSeq(t, Len(t), Len(t))))
       ELSE Absent

\* A JSON value of a test case: a string or a list of lines.
Str(s) == [kind |-> "str", str |-> s, list |-> <<>>]

List(lines) == [kind |-> "list", str |-> "", list |-> lines]

\* A text of 201 characters, one more than the diagnostic keeps of an output.
LongLine == "xxxxxxxxxxxxxxxxxxxxxxxxxxxxxxxxxxxxxxxxxxxxxxxxxxxxxxxxxxxxxxxxxxx"

LongText == LongLine \o LongLine \o LongLine

\* in_outs["inputs"][index]
StoredInputs == {Str("3\n4"), List(<<"3", "4">>)}

\* in_outs["outputs"][index]
StoredOutputs ==
    {Str("1 2 3"), Str("3\n4"), Str("3\n4\n"), Str("1"), Str("1 2"), Str(""),
     Str(LongText), List(<<"3", "4">>), List(<<"1 2 3">>)}

\* What the candidate may write to standard output.
CapturedTexts ==
    {"1 2\n3\n", "1 2 3\n", " 3 \n4 \n", "3\n4\n", "1.0\n", "2 1\n", "", "1  2\n",
     "3 4", "\n1\n", LongText}

\* truncatefn: asserts its argument is a string and keeps at most `length`
\* characters of it.
truncatefn(s, length) ==
    IF s.kind # "str" THEN Raise("AssertionError")
    ELSE IF Len(s.str) <= length THEN Return(s.str)
    ELSE Return(SubSeq(s.str, 1, length \div 2) \o "...(truncated) ..."
                \o SubSeq(s.str, Len(s.str) - (length \div 2) + 1, Len(s.str)))

\* if isinstance(x, list): x = "\n".join(x)
JoinIfList(x) == IF x.kind = "list" THEN Join("\n", x.list) ELSE x.str

stripped_string_compare(s1, s2) == Strip(s1) = Strip(s2)

custom_compare_(output, ground_truth) ==
    \/ stripped_string_compare(Join("\n", output), ground_truth)
    \/ stripped_string_compare(Join("\n", StripAll(output)), ground_truth)

\* combined_int_check on a string
combined_int_check(val) == IsDigits(val)

\* The comparison heuristics of the standard-input branch, applied in order
\* to the captured lines and the expected text; the result names the value
\* appended to results and the check that set it.
CompareStdin(output, expected) ==
    LET check1 == output = <<expected>>
        \* "try one more time without \n"
        expected2 == StripAll(FilterLen(SplitNewline(expected)))
        \* output == [expected2] compares strings with a list and is false
        check2 == output = expected2
        output2 == FilterLen(output)
        check3 == output2 = expected2
        zipped == 1..(IF Len(output2) < Len(expected2) THEN Len(output2)
                      ELSE Len(expected2))
        all_ints == \A k \in zipped :
                        combined_int_check(output2[k]) /\ combined_int_check(expected2[k])
        floats == /\ \A k \in 1..Len(output2) : Float(output2[k]) # Absent
                  /\ \A k \in 1..Len(expected2) : Float(expected2[k]) # Absent
        \* np.allclose: the tolerance is far below one tenth
        allclose == /\ Len(output2) = Len(expected2)
                    /\ \A k \in 1..Len(output2) : Float(output2[k]) = Float(expected2[k])
        check_float == ~all_ints /\ floats /\ allclose
        \* the expected lines become sets of tokens; a list of strings equals
        \* a list of sets only when both are empty
        check4 == Len(output2) = 0 /\ Len(expected2) = 0
    IN IF custom_compare_(output, expected) THEN [result |-> TRUE, by |-> "custom_compare_"]
       ELSE IF check1 THEN [result |-> TRUE, by |-> "check1"]
       ELSE IF check2 THEN [result |-> TRUE, by |-> "check2"]
       ELSE IF check3 THEN [result |-> TRUE, by |-> "check3"]
       ELSE IF check_float THEN [result |-> TRUE, by |-> "float"]
       \* the token sets of the captured lines are built and never compared:
       \* the result of check4 is appended
       ELSE [result |-> check4, by |-> "check4"]

\* The loop body of run_test on one standard-input test case, given what the
\* candidate wrote: the truncation of the raw values for the diagnostic, the
\* joins, and the comparison.
StandardInputCase(inputs, outputs, captured) ==
    LET shown_inputs == truncatefn(inputs, 300)
        shown_outputs == truncatefn(outputs, 200)
        expected == JoinIfList(outputs)
        verdict == CompareStdin(SplitLines(captured), expected)
    IN IF shown_inputs.tag = "raise" THEN shown_inputs
       ELSE IF shown_outputs.tag = "raise" THEN shown_outputs
       ELSE IF verdict.result
       THEN [tag |-> "true", by |-> verdict.by]
       ELSE [tag |-> "wrong", error_code |-> -2, error_message |-> "Wrong Answer",
             output |-> truncatefn(Str(captured), 200).value,
             expected |-> shown_outputs.value, inputs |-> shown_inputs.value]

GradeIdle ==
    /\ raw_inputs = Str("")
    /\ raw_outputs = Str("")
    /\ raw_true_output = ""
    /\ graded = NoOutcome

GradeInit ==
    /\ raw_inputs \in StoredInputs
    /\ raw_outputs \in StoredOutputs
    /\ raw_true_output \in CapturedTexts
    /\ graded = NoOutcome

\* One iteration of the loop over the test cases, in standard-input mode.
GradeCase ==
    /\ graded = NoOutcome
    /\ graded' = StandardInputCase(raw_inputs, raw_outputs, raw_true_output)
    /\ UNCHANGED <<raw_inputs, raw_outputs, raw_true_output>>
    /\ UNCHANGED notGradeVars

GradeNext == GradeCase

(***************************************************************************)
(* PART 6.  Prompt formatting: MHPP and LiveCodeBench few-shot.            *)
(***************************************************************************)

\* The positions (from 1) at which sub occurs in s.
Occurrences(s, sub) ==
    {k \in 1..(Len(s) - Len(sub) + 1) : SubSeq(s, k, k + Len(sub) - 1) = sub}

SetMin(S) == CHOOSE x \in S : \A y \in S : x <= y

SetMax(S) == CHOOSE x \in S : \A y \in S : x >= y

\* s.rfind(sub): the index (from 0) of the last occurrence, -1 when there is none.
rfind(s, sub) == IF Occurrences(s, sub) = {} THEN -1 ELSE SetMax(Occurrences(s, sub)) - 1

\* s[:n], for n >= -Len(s): the first n characters, all but the last -n when
\* n is negative.
SliceTo(s, n) ==
    IF n >= 0 THEN SubSeq(s, 1, IF n < Len(s) THEN n ELSE Len(s))
    ELSE SubSeq(s, 1, IF Len(s) + n > 0 THEN Len(s) + n ELSE 0)

TripleQuote == "\"\"\""

\* A string of this notation cannot hold the backtick character: in every text
\* below the tilde stands for it, so that ~~~ is the Markdown fence.  No text
\* of the source holds a tilde.
Fence == "~~~"

\* default_extract_helper(text, python) on a text: the inner content of the
\* first block opened by a python fence and closed by a fence, the empty
\* string when there is none.
ExtractFenced(text) ==
    LET opens == Occurrences(text, Fence \o "python\n")
        from == SetMin(opens) + Len(Fence \o "python\n")
        closes == {k \in Occurrences(text, Fence) : k >= from}
    IN IF opens = {} THEN ""
       ELSE IF closes = {} THEN ""
       ELSE SubSeq(text, from, SetMin(closes) - 1)

\* The content column of the MHPP rows.
MHPPContents ==
    {"def f(x):\n    \"\"\"Adds one.\n    \"\"\"\n",
     "def f(x):\n    \"\"\"Adds one.\"\"\"",
     "\"\"\"",
     "def f(x): pass",
     "",
     "See \"\"\"\n~~~python\ndef f():\n    \"\"\"doc\"\"\"\n~~~\n",
     "~~~python\nx = 1\n~~~"}

\* The test column of the MHPP rows.
MHPPTestTexts == {"assert f(1) == 2\nassert f(2) == 3", "assert f(1) == 2", ""}

\* A mutant of the truncation: the content is cut at the first triple quote.
MHPPPromptCutAtFirst(content, test, pretrain_mode) ==
    LET first_line == SplitNewline(test)[1]
        prompt == IF pretrain_mode THEN ExtractFenced(content) ELSE content
        cut == IF Occurrences(prompt, TripleQuote) = {} THEN -1
               ELSE SetMin(Occurrences(prompt, TripleQuote)) - 1
    IN SliceTo(prompt, cut) \o "\n    e.g. " \o first_line \o " " \o TripleQuote

\* MHPPDataset._generate_single_prompt: the prompt text.
MHPPPrompt(content, test, pretrain_mode) ==
    LET first_line == SplitNewline(test)[1]
        prompt == IF pretrain_mode THEN ExtractFenced(content) ELSE content
    IN SliceTo(prompt, rfind(prompt, TripleQuote))
       \o "\n    e.g. " \o first_line \o " " \o TripleQuote

\* The head of FEWSHOT_PREFIX and its last line; the three worked examples in
\* between are left out.
FEWSHOT_PREFIX ==
    "### Instruction\nYou are an expert Python programmer.\n\n### Question:\n"

\* The questions and starter codes the LiveCodeBench contents are built from.
Questions == {"Add a and b.", "", "Q\n\n### Format: x", "A\n### Question:\nB"}

StarterCodes ==
    {"# YOUR CODE HERE", "class Solution:\n    pass", "", "a\n~~~python\nb",
     "a\n\n### Format: b"}

\* A stored LiveCodeBench prompt with question q and starter code s.
StoredPrompt(q, s) ==
    "### Question:\n" \o q \o "\n\n### Format: Use the format below.\n~~~python\n"
    \o s \o "\n~~~\n\n### Answer: (use the provided format with backticks)\n\n"

\* re.search of the question pattern with re.DOTALL: the group of the leftmost
\* match, the greedy group reaching the last tail.
SearchQuestion(prompt) ==
    LET head == "### Question:\n"
        starts == Occurrences(prompt, head)
        from == SetMin(starts) + Len(head)
        tails == {k \in Occurrences(prompt, "\n\n### Format:") : k >= from}
    IN IF starts = {} THEN Absent
       ELSE IF tails = {} THEN Absent
       ELSE Present(SubSeq(prompt, from, SetMax(tails) - 1))

\* re.search of the starter-code pattern with re.DOTALL: the first greedy run
\* reaches the last opening fence that a closing fence follows, the group
\* reaches the last closing fence.
SearchStartCode(prompt) ==
    LET head == "### Format: "
        open == "\n~~~python\n"
        close == "\n~~~\n\n"
        starts == Occurrences(prompt, head)
        from == SetMin(starts) + Len(head)
        closesAfter(p) == {c \in Occurrences(prompt, close) : c >= p + Len(open)}
        opens == {p \in Occurrences(prompt, open) : p >= from /\ closesAfter(p) # {}}
        p == SetMax(opens)
    IN IF starts = {} THEN Absent
       ELSE IF opens = {} THEN Absent
       ELSE Present(SubSeq(prompt, p + Len(open), SetMax(closesAfter(p)) - 1))

\* extract_question: (question, start_code), or the AssertionError.
extract_question(prompt) ==
    LET question == SearchQuestion(prompt)
        start_code == SearchStartCode(prompt)
    IN IF question = Absent \/ start_code = Absent THEN Raise("AssertionError")
       ELSE Return([question |-> TheValue(question),
                    start_code |-> IF TheValue(start_code) = "# YOUR CODE HERE"
                                   THEN Absent ELSE start_code])

StarterFormat(starter_code) ==
    "### Format: You will use the following starter code to write the solution to the problem and enclose your code within delimiters.\n~~~python\n"
    \o starter_code \o "\n~~~"

GenericFormat ==
    "### Format: Read the inputs from stdin solve the problem and write the answer to stdout (do not directly test on the sample inputs). Enclose your code within delimiters as follows.\n~~~python\n~~~"

\* A mutant of generate_fewshot_prompt: the starter-code block is emitted for
\* every starter code that is not None, the empty one included.
generate_fewshot_prompt_not_none(question, starter_code) ==
    FEWSHOT_PREFIX \o question \o "\n\n"
    \o (IF starter_code # Absent
        THEN StarterFormat(TheValue(starter_code)) ELSE GenericFormat)
    \o "\n\n### Answer: (use the provided format with backticks)\n"

\* generate_fewshot_prompt; the test of starter_code is false for None and for
\* the empty string.
generate_fewshot_prompt(question, starter_code) ==
    FEWSHOT_PREFIX \o question \o "\n\n"
    \o (IF starter_code # Absent /\ starter_code # Present("")
        THEN StarterFormat(TheValue(starter_code)) ELSE GenericFormat)
    \o "\n\n### Answer: (use the provided format with backticks)\n"

\* LiveCodeBenchDataset._generate_single_prompt: the prompt text, or the raise.
LiveCodeBenchPrompt(content, is_fewshot) ==
    IF ~is_fewshot THEN Return(content)
    ELSE LET x == extract_question(content)
         IN IF x.tag = "raise" THEN x
            ELSE Return(generate_fewshot_prompt(x.value.question, x.value.start_code))

NotBuilt == [built |-> FALSE, question |-> "", starter_code |-> ""]

PromptIdle ==
    /\ fmtDataset = None
    /\ fmtRow = [content |-> "", test |-> ""]
    /\ fmtConfig = [pretrain_mode |-> FALSE, is_fewshot |-> FALSE]
    /\ fmtBuilt = NotBuilt
    /\ fmtExtracted = NoOutcome
    /\ fmtPrompt = NoOutcome

PromptInit ==
    /\ fmtExtracted = NoOutcome
    /\ fmtPrompt = NoOutcome
    /\ \/ /\ fmtDataset = "MHPP"
          /\ fmtRow \in [content : MHPPContents, test : MHPPTestTexts]
          /\ fmtConfig \in [pretrain_mode : BOOLEAN, is_fewshot : {FALSE}]
          /\ fmtBuilt = NotBuilt
       \/ /\ fmtDataset = "LiveCodeBench"
          /\ fmtConfig \in [pretrain_mode : {FALSE}, is_fewshot : BOOLEAN]
          /\ \/ /\ fmtBuilt \in [built : {TRUE}, question : Questions,
                                 starter_code : StarterCodes]
                /\ fmtRow = [content |-> StoredPrompt(fmtBuilt.question,
                                                      fmtBuilt.starter_code),
                             test |-> ""]
             \/ /\ fmtBuilt = NotBuilt
                /\ fmtRow = [content |-> "### Question:\nno format section", test |-> ""]

\* MHPPDataset._generate_single_prompt
FormatMHPP ==
    /\ fmtDataset = "MHPP" /\ fmtPrompt = NoOutcome
    /\ fmtPrompt' = Return(MHPPPrompt(fmtRow.content, fmtRow.test, fmtConfig.pretrain_mode))
    /\ UNCHANGED <<fmtDataset, fmtRow, fmtConfig, fmtBuilt, fmtExtracted>>
    /\ UNCHANGED notPromptVars

\* LiveCodeBenchDataset._generate_single_prompt
FormatLiveCodeBench ==
    /\ fmtDataset = "LiveCodeBench" /\ fmtPrompt = NoOutcome
    /\ fmtExtracted' = IF fmtConfig.is_fewshot THEN extract_question(fmtRow.content)
                                               ELSE NoOutcome
    /\ fmtPrompt' = LiveCodeBenchPrompt(fmtRow.content, fmtConfig.is_fewshot)
    /\ UNCHANGED <<fmtDataset, fmtRow, fmtConfig, fmtBuilt>>
    /\ UNCHANGED notPromptVars

PromptNext == FormatMHPP \/ FormatLiveCodeBench

(***************************************************************************)
(* PART 7.  run_test: the standard-input source transform.                 *)
(***************************************************************************)

\* Bound on the number of lines of a candidate source.
MaxLines == 3

\* The lines candidate sources are made of.
SourceLines == {"import os", "from math import *", "x = 1", "print(x)"}

\* The candidate sources: up to MaxLines lines joined by newlines.  None ends
\* with a __main__ guard, so that the rewriting of such a guard leaves them as
\* they are.
Sources ==
    {Join("\n", ls) : ls \in UNION {[1..n -> SourceLines] : n \in 0..MaxLines}}

\* str.startswith
StartsWith(s, prefix) == Len(s) >= Len(prefix) /\ SubSeq(s, 1, Len(prefix)) = prefix

\* The test of both loops: the line is an import line.
IsImportLine(x) == StartsWith(x, "from ") \/ StartsWith(x, "import ")

\* The first loop: every line gets its newline back, and a tab in front unless
\* it is an import line.
MarkLines(lines) ==
    [k \in 1..Len(lines) |->
        IF ~IsImportLine(lines[k]) THEN "\t" \o lines[k] \o "\n" ELSE lines[k] \o "\n"]

\* A mutant of the second loop: an import line met after the block has
\* started is left at column zero.
StartedImportLineHoisted(i) == i

\* The second loop, on an import line met after the block has started.
StartedImportLine(i) == "\t" \o i

CodeHeader == "stdin = sys.stdin\nstdout = sys.stdout\n" \o "def code():\n"

RECURSIVE Assemble(_, _, _)
\* The second loop from line k on: the header goes before the first line that
\* starts with a tab.
Assemble(tmp_test, k, started) ==
    IF k > Len(tmp_test) THEN ""
    ELSE LET i == tmp_test[k]
         IN IF StartsWith(i, "\t") /\ ~started
            THEN CodeHeader \o i \o Assemble(tmp_test, k + 1, TRUE)
            ELSE IF started /\ IsImportLine(i)
            THEN StartedImportLine(i) \o Assemble(tmp_test, k + 1, started)
            ELSE i \o Assemble(tmp_test, k + 1, started)

\* The text run_test adds to sol for the candidate source src.
TransformSource(src) == Assemble(MarkLines(SplitNewline(src)), 1, FALSE)

TransformIdle == srcTest = "" /\ srcNewTest = Absent

TransformInit == srcTest \in Sources /\ srcNewTest = Absent

\* run_test assembles the source of a standard-input candidate.
Transform ==
    /\ srcNewTest = Absent
    /\ srcNewTest' = Present(TransformSource(srcTest))
    /\ UNCHANGED srcTest
    /\ UNCHANGED notTransformVars

TransformNext == Transform

(***************************************************************************)
(* The specifications.                                                     *)
(***************************************************************************)

\* The client's retried operations.
Init ==
    /\ ClientInit /\ SummaryIdle /\ AdapterInit /\ HarnessInit /\ GradeIdle /\ PromptIdle
    /\ TransformIdle

Next == ClientNext

Spec == Init /\ [][Next]_vars

\* summary_run_code_result on every response and mapping of the bounded sets.
InitSummary ==
    /\ SummaryInit /\ ClientInit /\ AdapterInit /\ HarnessInit /\ GradeIdle /\ PromptIdle
    /\ TransformIdle

NextSummary == SummaryNext

SpecSummary == InitSummary /\ [][NextSummary]_vars

\* One evaluate_single call of an adapter.
InitAdapter ==
    /\ AdapterInit /\ ClientInit /\ SummaryIdle /\ HarnessInit /\ GradeIdle /\ PromptIdle
    /\ TransformIdle

NextAdapter == AdapterNext

SpecAdapter == InitAdapter /\ [][NextAdapter]_vars

\* One run of the LiveCodeBench driver script inside the sandbox.
InitHarness ==
    /\ HarnessInit /\ ClientInit /\ SummaryIdle /\ AdapterInit /\ GradeIdle /\ PromptIdle
    /\ TransformIdle

NextHarness == HarnessNext

SpecHarness == InitHarness /\ [][NextHarness]_vars

\* The grading of one standard-input test case, on every stored test case and
\* captured text of the bounded sets.
InitGrade ==
    /\ GradeInit /\ ClientInit /\ SummaryIdle /\ AdapterInit /\ HarnessInit /\ PromptIdle
    /\ TransformIdle

NextGrade == GradeNext

SpecGrade == InitGrade /\ [][NextGrade]_vars

\* The client's operations with every endpoint argument, and set_endpoint.
InitEndpoint ==
    /\ ClientImported /\ SummaryIdle /\ AdapterInit /\ HarnessInit /\ GradeIdle /\ PromptIdle
    /\ TransformIdle

NextEndpoint == EndpointNext

SpecEndpoint == InitEndpoint /\ [][NextEndpoint]_vars

\* The formatting of one prompt, on every row and configuration of the
\* bounded sets.
InitPrompt ==
    /\ PromptInit /\ ClientInit /\ SummaryIdle /\ AdapterInit /\ HarnessInit /\ GradeIdle
    /\ TransformIdle

NextPrompt == PromptNext

SpecPrompt == InitPrompt /\ [][NextPrompt]_vars

\* The standard-input source transform, on every candidate source of the
\* bounded set.
InitTransform ==
    /\ TransformInit /\ ClientInit /\ SummaryIdle /\ AdapterInit /\ HarnessInit /\ GradeIdle
    /\ PromptIdle

NextTransform == TransformNext

SpecTransform == InitTransform /\ [][NextTransform]_vars

(***************************************************************************)
(* Claims about the retried operations (checked under Spec).               *)
(***************************************************************************)

Finished(c) == pc[c] \in {"returned", "raised"}

\* The reply passes the status check of the code and decodes.
Decodable(reply) == reply.kind = "http" /\ reply.body \in RunStatus

\* The RunCodeResponse a decodable body decodes to.
Decoded(reply) == [status |-> reply.body, message |-> reply.message]

RetryWarnings(k) == [i \in 1..k |-> "retry_warning"]

\* The failure an undecodable or rejected answer stands for.
FailureOf(reply) ==
    IF reply.kind = "transport" THEN "ConnectionError"
    ELSE IF reply.code # 200 THEN "Faas api responded with code"
    ELSE IF reply.body = "garbage" THEN "decode"
    ELSE "Sandbox responded with error"

\* C1 as stated: when attempts 1..N-1 of a run_code call were answered with a
\* non-2xx status and attempt N with any 2xx status and a decodable body whose
\* status is not SandboxError, the call has returned that decoded response after
\* exactly N requests.
C1_AnyTwoXXReturns ==
    \A c \in Callers :
        (/\ op[c] = "run_code"
         /\ priorNon2xx[c]
         /\ Is2xx(lastReply[c])
         /\ Decodable(lastReply[c])
         /\ lastReply[c].body # "SandboxError")
        => /\ pc[c] = "returned"
           /\ outcome[c] = Val(Decoded(lastReply[c]))
           /\ requests[c] = attempt_number[c]

\* C1 (amended): the same with status 200 in place of "a 2xx status": for every
\* max_attempts >= 1 and N <= max_attempts, a non-2xx answer to an attempt
\* before the last one leaves the call waiting to retry, and an answer 200
\* with a decodable body whose status is not SandboxError at attempt N makes
\* run_code return that decoded response after exactly N requests; a call that
\* has returned or raised issues no further request.
C1_Status200Returns ==
    [][\A c \in Callers :
        /\ (/\ op'[c] = "run_code"
            /\ requests'[c] # requests[c]
            /\ priorNon2xx'[c])
           => /\ requests'[c] = attempt_number'[c]
              /\ requests'[c] <= max_attempts'[c]
              /\ (Non2xx(lastReply'[c]) /\ requests'[c] < max_attempts'[c])
                 => pc'[c] = "sleep"
              /\ (/\ lastReply'[c].kind = "http"
                  /\ lastReply'[c].code = 200
                  /\ Decodable(lastReply'[c])
                  /\ lastReply'[c].body # "SandboxError")
                 => /\ pc'[c] = "returned"
                    /\ outcome'[c] = Val(Decoded(lastReply'[c]))
        /\ Finished(c) => (Finished(c)' /\ requests'[c] = requests[c]
                           /\ outcome'[c] = outcome[c])
      ]_vars

\* C1 witness: a run_code call with max_attempts = 3 returned at its third
\* attempt, after two non-2xx answers.
C1_Witness ==
    \E c \in Callers :
        /\ op[c] = "run_code" /\ pc[c] = "returned" /\ max_attempts[c] = 3
        /\ priorNon2xx[c] /\ requests[c] = 3 /\ lastReply[c].code = 200

\* C2: a call of run_code, run_jupyter or submit with max_attempts = M whose
\* every attempt fails issues exactly M requests, logs exactly M-1 retry
\* warnings (one before each retry sleep) and then one error, and raises the
\* exception of the M-th attempt; and such a call ends in no other way.
C2_ExhaustedRetries ==
    \A c \in Callers :
        op[c] \in {"run_code", "run_jupyter", "submit"} =>
            /\ pc[c] = "raised" =>
                  /\ requests[c] = max_attempts[c]
                  /\ log[c] = RetryWarnings(max_attempts[c] - 1) \o <<"error">>
                  /\ outcome[c].tag = "exc"
                  /\ outcome[c].attempt = max_attempts[c]
                  /\ outcome[c].what = FailureOf(lastReply[c])
            /\ pc[c] = "sleep" =>
                  /\ requests[c] = attempt_number[c]
                  /\ requests[c] < max_attempts[c]
                  /\ log[c] = RetryWarnings(attempt_number[c])
            /\ pc[c] = "attempt" =>
                  /\ requests[c] = attempt_number[c] - 1
                  /\ log[c] = RetryWarnings(attempt_number[c] - 1)
            /\ pc[c] = "returned" =>
                  /\ lastReply[c].code = 200 /\ Decodable(lastReply[c])
                  /\ log[c] = RetryWarnings(requests[c] - 1)

\* C2 witness: a submit call with max_attempts = 3 has given up.
C2_Witness ==
    \E c \in Callers :
        op[c] = "submit" /\ pc[c] = "raised" /\ max_attempts[c] = 3

\* C3: submit_safe never raises; when submit's retries are exhausted it
\* returns EvalResult(id=request.id, accepted=false, extracted_code='',
\* tests=[]), and when an attempt succeeds it returns the EvalResult the
\* endpoint sent.
C3_SubmitSafeNeverRaises ==
    \A c \in Callers :
        op[c] = "submit_safe" =>
            /\ pc[c] # "raised"
            /\ pc[c] = "returned" =>
                  IF lastReply[c].code = 200 /\ Decodable(lastReply[c])
                  THEN outcome[c] = Val(ServerEvalResult(RequestId(c), lastReply[c].body))
                  ELSE /\ requests[c] = max_attempts[c]
                       /\ outcome[c] = Val([id |-> RequestId(c), accepted |-> FALSE,
                                            extracted_code |-> "", tests |-> <<>>])

\* C3 witness: a submit_safe call returned the rejected result after three
\* failed attempts.
C3_Witness ==
    \E c \in Callers :
        /\ op[c] = "submit_safe" /\ pc[c] = "returned" /\ requests[c] = 3
        /\ outcome[c].value.accepted = FALSE /\ outcome[c].value.tests = <<>>

\* C4: run_code and run_jupyter never return a response whose status is
\* SandboxError: a 200 reply that decodes to status SandboxError is a failed
\* attempt, retried like any other failure, and when it is the answer to the
\* last attempt the call raises an error that carries the server's message.
C4_SandboxErrorIsRetried ==
    \A c \in Callers :
        op[c] \in {"run_code", "run_jupyter"} =>
            /\ pc[c] = "returned" => outcome[c].value.status \in {"Success", "Failed"}
            /\ (lastReply[c].code = 200 /\ lastReply[c].body = "SandboxError") =>
                  IF requests[c] < max_attempts[c]
                  THEN pc[c] \in {"sleep", "attempt"}
                  ELSE /\ pc[c] = "raised"
                       /\ outcome[c].what = "Sandbox responded with error"
                       /\ outcome[c].detail = lastReply[c].message

\* C4 witness: a run_jupyter call raised after its last attempt was answered
\* 200 with status SandboxError.
C4_Witness ==
    \E c \in Callers :
        /\ op[c] = "run_jupyter" /\ pc[c] = "raised" /\ max_attempts[c] = 2
        /\ lastReply[c].body = "SandboxError" /\ lastReply[c].message = "m2"

(***************************************************************************)
(* Claims about summary_run_code_result (checked under SpecSummary).       *)
(***************************************************************************)

Summarised == sumOutcome # NoOutcome

HasRun == sumResult.run_result # Absent

HasCompile == sumResult.compile_result # Absent

RunOf == TheValue(sumResult.run_result)

CompileOf == TheValue(sumResult.compile_result)

\* The label the table of C7 gives, with the replacement of optional labels
\* left to the operator Opt.
TableLabel(Opt(_)) ==
    IF HasRun
    THEN IF RunOf.status = "TimeLimitExceeded" THEN Opt(sumMapping.RunTimeout)
         ELSE IF RunOf.return_code # Present(0) THEN Opt(sumMapping.RunFailed)
         ELSE sumMapping.Success
    ELSE IF HasCompile
    THEN IF CompileOf.status = "TimeLimitExceeded" THEN Opt(sumMapping.CompileTimeout)
         ELSE Opt(sumMapping.CompileFailed)
    ELSE IF sumResult.status = "Success" THEN sumMapping.Success
    ELSE sumMapping.Failed

UnsetIsFailed(label) == IF label = None THEN sumMapping.Failed ELSE label

UnsetOrEmptyIsFailed(label) ==
    IF label = None \/ label = "" THEN sumMapping.Failed ELSE label

\* C7 as stated: whenever summary_run_code_result returns a label, it is the
\* label of the table with every unset (None) optional label replaced by
\* mapping.Failed.
C7_TableUnsetOnly ==
    (Summarised /\ sumOutcome.tag = "return")
    => sumOutcome.value = TableLabel(UnsetIsFailed)

\* C7 (amended): whenever summary_run_code_result returns a label, it is the
\* label of the table with every optional label that is unset or the empty
\* string replaced by mapping.Failed; with a run phase present the label is
\* decided by run_result and the mapping alone.
C7_TableUnsetOrEmpty ==
    (Summarised /\ sumOutcome.tag = "return")
    => /\ sumOutcome.value = TableLabel(UnsetOrEmptyIsFailed)
       /\ HasRun =>
             sumOutcome.value =
                IF RunOf.status = "TimeLimitExceeded"
                THEN UnsetOrEmptyIsFailed(sumMapping.RunTimeout)
                ELSE IF TheValue(RunOf.return_code) # 0
                THEN UnsetOrEmptyIsFailed(sumMapping.RunFailed)
                ELSE "success"

\* C7 witness: a response with a compile phase, a run phase that timed out, a
\* top-level status Failed and RunTimeout set to the empty string was
\* classified.
C7_Witness ==
    /\ Summarised /\ sumOutcome.tag = "return"
    /\ HasRun /\ HasCompile /\ RunOf.status = "TimeLimitExceeded"
    /\ sumResult.status = "Failed" /\ sumMapping.RunTimeout = ""

\* The cases in which C8 says the call raises.
C8_ListedCases ==
    \/ ~HasRun /\ ~HasCompile /\ sumResult.status \notin {"Success", "Failed"}
    \/ ~HasRun /\ HasCompile /\ CompileOf.return_code = Absent
    \/ ~HasRun /\ HasCompile /\ CompileOf.return_code = Present(0)
    \/ HasRun /\ RunOf.return_code = Absent

\* C8 as stated: the call raises in every listed case and returns a label in
\* every other case.
C8_RaisesInListedCases ==
    Summarised => (sumOutcome.tag = "raise" <=> C8_ListedCases)

\* C8 (amended): the call raises exactly when neither phase is present and the
\* top-level status is neither Success nor Failed, or only the compile phase
\* is present, its status is not TimeLimitExceeded and its return code is
\* missing or 0, or the run phase is present, its status is not
\* TimeLimitExceeded and its return code is missing; in every other case it
\* returns a label.
C8_RaisesUnlessTimeLimit ==
    Summarised =>
        /\ sumOutcome.tag \in {"raise", "return"}
        /\ sumOutcome.tag = "raise" <=>
              \/ ~HasRun /\ ~HasCompile /\ sumResult.status \notin {"Success", "Failed"}
              \/ /\ ~HasRun /\ HasCompile
                 /\ CompileOf.status # "TimeLimitExceeded"
                 /\ CompileOf.return_code \in {Absent, Present(0)}
              \/ /\ HasRun
                 /\ RunOf.status # "TimeLimitExceeded"
                 /\ RunOf.return_code = Absent

\* C8 witness: a response with only a compile phase, whose status is
\* TimeLimitExceeded and whose return code is missing, was classified.
C8_Witness ==
    /\ Summarised /\ ~HasRun /\ HasCompile
    /\ CompileOf.status = "TimeLimitExceeded" /\ CompileOf.return_code = Absent

(***************************************************************************)
(* Claims about evaluate_single (checked under SpecAdapter).               *)
(***************************************************************************)

\* C5: every EvalResult an adapter's evaluate_single returns has
\* id = request.id and exactly one test entry, whose passed equals accepted
\* and whose exec_info is the sandbox response; accepted is true exactly when
\* the response status is Success.
C5_OneTestPerResult ==
    evPc = "returned" =>
        /\ evOutcome.tag = "return"
        /\ evOutcome.value.id = evRequest.id
        /\ Len(evOutcome.value.tests) = 1
        /\ evOutcome.value.tests[1].passed = evOutcome.value.accepted
        /\ evResponse # Absent
        /\ evOutcome.value.tests[1].exec_info = TheValue(evResponse)
        /\ evOutcome.value.accepted <=> (TheValue(evResponse).status = "Success")

\* C5 witness: an adapter returned a result for a response of status
\* SandboxError.
C5_Witness ==
    /\ evPc = "returned" /\ evAdapter = "LiveCodeBench"
    /\ evOutcome.value.tests[1].exec_info.status = "SandboxError"
    /\ ~evOutcome.value.accepted

\* The trace of a complete evaluate_single call: database read, extraction
\* (once, or twice for MHPP), one sandbox invocation, result mapping.
C6_FullTraces ==
    {<<"db_read", "extract", "sandbox_invoke", "map_result">>,
     <<"db_read", "extract", "extract", "sandbox_invoke", "map_result">>}

IsPrefix(t, u) == Len(t) <= Len(u) /\ SubSeq(u, 1, Len(t)) = t

SandboxInvocations == Cardinality({k \in 1..Len(evTrace) : evTrace[k] = "sandbox_invoke"})

\* C6: the steps of one evaluate_single call occur in the order database read,
\* code extraction, sandbox invocation, result mapping; the sandbox is invoked
\* at most once, and exactly once in a call that returns, also when MHPP
\* extracts twice; a fault of the database read or of the sandbox invocation
\* is raised to the caller and no EvalResult is produced.
C6_SequentialSteps ==
    /\ \E u \in C6_FullTraces : IsPrefix(evTrace, u)
    /\ SandboxInvocations <= 1
    /\ evPc = "returned" => (evTrace \in C6_FullTraces /\ SandboxInvocations = 1)
    /\ evPc = "sandbox" => (SandboxInvocations = 1 /\ evOutcome = NoOutcome)
    /\ evPc = "raised" =>
          /\ evOutcome.tag = "raise"
          /\ evOutcome.msg \in {"NotFound", "TransportError"}
          /\ evTrace[Len(evTrace)] \in {"db_read", "sandbox_invoke"}
    /\ evOutcome.tag = "return" => evTrace[Len(evTrace)] = "map_result"

\* C6 witness: the sandbox invocation of an MHPP call that extracted twice
\* raised a transport fault.
C6_Witness ==
    /\ evPc = "raised" /\ evAdapter = "MHPP"
    /\ evTrace = <<"db_read", "extract", "extract", "sandbox_invoke">>
    /\ evOutcome = Raise("TransportError")

(***************************************************************************)
(* Claims about the request the adapters send (under SpecAdapter).         *)
(***************************************************************************)

Sent == TheValue(evSent)

EndsWith(s, suffix) ==
    Len(s) >= Len(suffix) /\ SubSeq(s, Len(s) - Len(suffix) + 1, Len(s)) = suffix

\* The driver script passes `seconds` to run_test as the per-test timeout.
DriverTimeoutIs(code, seconds) == EndsWith(code, "timeout=" \o ToString(seconds) \o ")")

Min(a, b) == IF a < b THEN a ELSE b

\* C14: for every per-test timeout t >= 1 (config.run_timeout, or 6 when it is
\* absent) and every test count n, LiveCodeBench's evaluate_single sends the
\* sandbox run_timeout = min((t + 1) * n + 5, 315), never more than 315
\* (t = 6, n = 10 gives 75; t = 6, n = 60 gives 315), and the driver script
\* passes run_test the per-test value t, not the aggregate budget.
C14_AggregateTimeout ==
    (/\ evAdapter = "LiveCodeBench"
     /\ evSent # Absent
     /\ evRequest.run_timeout # Present(0))
    => LET t == IF evRequest.run_timeout = Absent THEN 6
                ELSE TheValue(evRequest.run_timeout)
           n == evTest.test_cnt
       IN /\ t >= 1
          /\ Sent.run_timeout = Min((t + 1) * n + 5, 315)
          /\ Sent.run_timeout <= 315
          /\ (t = 6 /\ n = 10) => Sent.run_timeout = 75
          /\ (t = 6 /\ n = 60) => Sent.run_timeout = 315
          /\ DriverTimeoutIs(Sent.code, t)

\* C14 witness: with t = 6 and 60 test cases the uncapped budget 425 is sent
\* as 315, and the driver is given 6.
C14_Witness ==
    /\ evAdapter = "LiveCodeBench" /\ evSent # Absent
    /\ evRequest.run_timeout = Present(6) /\ evTest.test_cnt = 60
    /\ Sent.run_timeout = 315 /\ DriverTimeoutIs(Sent.code, 6)

\* The adapter's own default timeout.
DefaultTimeout(adapter) ==
    IF adapter = "Aider" THEN 60 ELSE IF adapter = "MHPP" THEN 20 ELSE 6

\* The timeout the adapter took from the request or its default: the sandbox
\* run_timeout for Aider and MHPP, the per-test timeout of the driver for
\* LiveCodeBench.
TimeoutUsedIs(seconds) ==
    IF evAdapter = "LiveCodeBench" THEN DriverTimeoutIs(Sent.code, seconds)
    ELSE Sent.run_timeout = seconds

\* C15 as stated: each adapter uses config.run_timeout whenever the request
\* supplies one, and its own default (60 Aider, 20 MHPP, 6 LiveCodeBench per
\* test) only when the value is absent.
C15_DefaultOnlyWhenAbsent ==
    evSent # Absent =>
        TimeoutUsedIs(IF evRequest.run_timeout = Absent THEN DefaultTimeout(evAdapter)
                      ELSE TheValue(evRequest.run_timeout))

\* C15 (amended): each adapter uses config.run_timeout when the request
\* supplies a value other than 0, and its own default (60 Aider, 20 MHPP, 6
\* LiveCodeBench per test) when the value is absent or 0.
C15_DefaultWhenAbsentOrZero ==
    evSent # Absent =>
        TimeoutUsedIs(IF evRequest.run_timeout \in {Absent, Present(0)}
                      THEN DefaultTimeout(evAdapter)
                      ELSE TheValue(evRequest.run_timeout))

\* C15 witness: an MHPP request with run_timeout = 0 was sent with the default
\* of 20 seconds.
C15_Witness ==
    /\ evAdapter = "MHPP" /\ evSent # Absent
    /\ evRequest.run_timeout = Present(0) /\ Sent.run_timeout = 20

Marker == "#<INSERT>"

\* The positions at which the marker occurs in a text.
MarkerAt(s) ==
    {k \in 1..(Len(s) - Len(Marker) + 1) : SubSeq(s, k, k + Len(Marker) - 1) = Marker}

RECURSIVE Pieces(_)
\* The pieces of a template between its markers, in order.
Pieces(s) ==
    IF MarkerAt(s) = {} THEN <<s>>
    ELSE LET k == CHOOSE k \in MarkerAt(s) : \A j \in MarkerAt(s) : k <= j
         IN <<SubSeq(s, 1, k - 1)>> \o Pieces(SubSeq(s, k + Len(Marker), Len(s)))

\* C16: Aider's full_code is the stored driver template with its #<INSERT>
\* marker replaced literally by the extracted code (every piece of the
\* template outside the marker is kept, the code is put in as it is, also
\* when it contains the marker itself); the template
\* "print('before');#<INSERT>;print('after')" with code "x=1" gives
\* "print('before');x=1;print('after')"; and the files sent are the stored
\* asset mapping unchanged, still base64.
C16_MarkerReplaced ==
    (evAdapter = "Aider" /\ evSent # Absent) =>
        /\ Sent.code = Join(evCode, Pieces(evTest.code))
        /\ (evTest.code = "print('before');#<INSERT>;print('after')" /\ evCode = "x=1")
           => Sent.code = "print('before');x=1;print('after')"
        /\ (Cardinality(MarkerAt(evTest.code)) = 1 /\ evCode = Marker)
           => Sent.code = evTest.code
        /\ Sent.files = evTest.asset
        /\ \A f \in Sent.files : f[2].encoding = "base64"

\* C16 witness: the template of the example was filled with the code "x=1" and
\* sent with its asset file.
C16_Witness ==
    /\ evAdapter = "Aider" /\ evSent # Absent
    /\ evCode = "x=1" /\ Sent.code = "print('before');x=1;print('after')"
    /\ Sent.files = {<<"util.py", Base64("y=2")>>}

\* The number of calls of the extraction helper so far.
Extractions == Cardinality({k \in 1..Len(evTrace) : evTrace[k] = "extract"})

\* C17: MHPP's evaluate_single extracts from request.completion alone; if and
\* only if that result is empty or whitespace-only it extracts once more, from
\* content + "\n" + completion, and the result of the second extraction,
\* whatever it is, is the extracted code; when the first result is not blank
\* there is no second extraction.  full_code is the extracted code, a newline,
\* and the whole stored test text.
C17_SecondExtraction ==
    (evAdapter = "MHPP" /\ evSent # Absent) =>
        LET first == default_extract_helper(evRequest.completion)
            second == default_extract_helper(ConcatFence(evContent, evRequest.completion))
        IN /\ IF Strip(first) = ""
              THEN evCode = second /\ Extractions = 2
              ELSE evCode = first /\ Extractions = 1
           /\ Sent.code = evCode \o "\n" \o evTest.text
           /\ evPc = "returned" => evOutcome.value.extracted_code = evCode

\* C17 witness: the completion's block was whitespace-only, the second
\* extraction took the block of the row's content, and full_code is that code
\* followed by both lines of the stored test.
C17_Witness ==
    /\ evAdapter = "MHPP" /\ evPc = "returned"
    /\ evRequest.completion = "  " /\ Extractions = 2
    /\ Sent.code = "def f(): pass\nassert f(1) == 2\nassert f(2) == 3"

(***************************************************************************)
(* Claims about the LiveCodeBench driver and harness (under SpecHarness).  *)
(***************************************************************************)

ProcessOver == hPc \in {"exited", "aborted"}

RunTestReturned == hPc \in {"returned", "exited"}

AllTrue(res) == \A k \in 1..Len(res) : res[k] = "True"

\* C9: the driver process exits with status 0 if and only if run_test
\* returned and every element of its results is true; when run_test returned
\* results with an element that is not true, the driver printed the diagnostic
\* and exited with status -1.
C9_ExitZeroIffAllTrue ==
    ProcessOver =>
        /\ exitCode = Present(0) <=> (RunTestReturned /\ AllTrue(results))
        /\ (RunTestReturned /\ ~AllTrue(results)) => (printed /\ exitCode = Present(-1))

\* The candidate raised a fault while it was invoked on a test case.
FaultInTestCase == invoked # <<>> /\ hFault # NoFault

\* run_test returned at once from the faulting test case, with -1 as the last
\* result and the diagnostic of the fault's classification.
AbortedOnFault ==
    /\ RunTestReturned
    /\ results # <<>> /\ results[Len(results)] = "-1"
    /\ Len(results) = Len(invoked)
    /\ invoked[Len(invoked)] = Len(results) - 1
    /\ metadata = IF hFault.mentionsTimeout
                  THEN [error_code |-> -3, error_message |-> "Time Limit Exceeded"]
                  ELSE [error_code |-> -4, error_message |-> "Runtime Error"]

FaultInCompile == invoked = <<>> /\ hFault # NoFault

\* C11: in both modes, any fault raised while the runtime module is built from
\* the assembled source is caught: run_test returns at once with results [-2]
\* and the diagnostic error_code -1, 'Compilation Error', and no test case is
\* run.
C11_CompileFaultCaught ==
    FaultInCompile =>
        /\ RunTestReturned
        /\ results = <<"-2">>
        /\ metadata = [error_code |-> -1, error_message |-> "Compilation Error"]

(***************************************************************************)
(* Claims about the grading of a standard-input test case (SpecGrade).     *)
(***************************************************************************)

Graded == graded # NoOutcome

\* The non-empty lines of a text.
NonEmptyLines(s) == FilterLen(SplitNewline(s))

\* C12: in standard-input mode a captured output whose whitespace-delimited
\* tokens equal those of the expected output, but whose line structure
\* differs, is accepted (true is appended to results and grading goes on with
\* the next test case), here for test cases stored as strings.
C12_TokenFallbackAccepts ==
    (/\ Graded
     /\ raw_inputs.kind = "str" /\ raw_outputs.kind = "str"
     /\ SplitWhitespace(raw_true_output) = SplitWhitespace(raw_outputs.str)
     /\ Len(NonEmptyLines(raw_true_output)) # Len(NonEmptyLines(raw_outputs.str)))
    => graded.tag = "true"

\* C13: a standard-input test case whose input or expected output is stored
\* as a list of lines is graded exactly as the test case that stores the
\* lines joined with newlines as one string; in particular the captured text
\* ' 3 \n4 \n' is accepted against the expected output ['3', '4'].
C13_LinesGradedAsJoined ==
    Graded =>
        /\ graded = StandardInputCase(Str(JoinIfList(raw_inputs)),
                                      Str(JoinIfList(raw_outputs)), raw_true_output)
        /\ (raw_true_output = " 3 \n4 \n" /\ raw_outputs = List(<<"3", "4">>))
           => graded.tag = "true"

(***************************************************************************)
(* Claims about prompt formatting.                                         *)
(***************************************************************************)

MHPPFormatted == fmtDataset = "MHPP" /\ fmtPrompt # NoOutcome

\* The part of s strictly before the last occurrence of the triple quote.
BeforeLastMarker(s) ==
    LET p == CHOOSE k \in Occurrences(s, TripleQuote) :
                 \A j \in Occurrences(s, TripleQuote) : j <= k
    IN SubSeq(s, 1, p - 1)

\* The first line of test: its longest prefix without a newline.
FirstLineOf(test) ==
    LET k == CHOOSE n \in 0..Len(test) :
                 /\ \A i \in 1..n : SubSeq(test, i, i) # "\n"
                 /\ n = Len(test) \/ SubSeq(test, n + 1, n + 1) = "\n"
    IN SubSeq(test, 1, k)

ExampleTail == "\n    e.g. " \o FirstLineOf(fmtRow.test) \o " \"\"\""

\* The text that is truncated: content, or with pretrain_mode the fenced block
\* extracted from content.
PromptSource ==
    IF fmtConfig.pretrain_mode THEN ExtractFenced(fmtRow.content) ELSE fmtRow.content

\* C18 as stated: whatever the configuration, for a content that contains a
\* triple-quote marker the prompt is the part of content strictly before the last
\* marker followed by exactly the example tail made of the first line of test.
C18_ContentTruncated ==
    (MHPPFormatted /\ Occurrences(fmtRow.content, TripleQuote) # {})
        => fmtPrompt = Return(BeforeLastMarker(fmtRow.content) \o ExampleTail)

\* C18 amended: the text that is truncated is content when pretrain_mode is not
\* set and the fenced block extracted from content when it is set; when that
\* text contains a triple-quote marker the prompt is its part strictly before
\* the last marker followed by exactly the example tail made of the first line
\* of test.
C18_SourceTruncated ==
    (MHPPFormatted /\ Occurrences(PromptSource, TripleQuote) # {})
        => fmtPrompt = Return(BeforeLastMarker(PromptSource) \o ExampleTail)

\* A content with two markers and a test of two lines has been formatted.
C18_Witness ==
    /\ MHPPFormatted
    /\ ~fmtConfig.pretrain_mode
    /\ Cardinality(Occurrences(fmtRow.content, TripleQuote)) = 2
    /\ Occurrences(fmtRow.test, "\n") # {}
    /\ fmtPrompt = Return("def f(x):\n    \"\"\"Adds one.\n    \n    e.g. assert f(1) == 2 \"\"\"")

FewshotFormatted ==
    /\ fmtDataset = "LiveCodeBench" /\ fmtConfig.is_fewshot
    /\ fmtBuilt.built /\ fmtPrompt # NoOutcome

Placeholder == "# YOUR CODE HERE"

\* The pair extract_question is to recover from a prompt built from q and s.
Recovered(q, s) ==
    Return([question |-> q,
            start_code |-> IF s = Placeholder THEN Absent ELSE Present(s)])

\* The few-shot prompt whose Format block shows the starter code s.
WithStarterBlock(q, s) ==
    FEWSHOT_PREFIX \o q
    \o "\n\n### Format: You will use the following starter code to write the solution to the problem and enclose your code within delimiters.\n"
    \o Fence \o "python\n" \o s \o "\n" \o Fence
    \o "\n\n### Answer: (use the provided format with backticks)\n"

\* The few-shot prompt whose Format block is the generic one.
WithGenericBlock(q) ==
    FEWSHOT_PREFIX \o q
    \o "\n\n### Format: Read the inputs from stdin solve the problem and write the answer to stdout (do not directly test on the sample inputs). Enclose your code within delimiters as follows.\n"
    \o Fence \o "python\n" \o Fence
    \o "\n\n### Answer: (use the provided format with backticks)\n"

\* C19 as stated: for every question Q and starter code S, extract_question on
\* the prompt built from them returns exactly (Q, S), S equal to the placeholder
\* being returned as absent, and generate_fewshot_prompt emits the starter-code
\* block with exactly S when S is present and the generic block when it is absent.
C19_RoundTrip ==
    FewshotFormatted =>
        /\ fmtExtracted = Recovered(fmtBuilt.question, fmtBuilt.starter_code)
        /\ fmtPrompt = Return(IF fmtBuilt.starter_code = Placeholder
                              THEN WithGenericBlock(fmtBuilt.question)
                              ELSE WithStarterBlock(fmtBuilt.question,
                                                    fmtBuilt.starter_code))

\* The starter codes the markers can be told apart from: they hold neither the
\* Format marker nor the opening of a python fence.
MarkerFree(s) ==
    /\ Occurrences(s, "### Format:") = {}
    /\ Occurrences(s, Fence \o "python") = {}

\* C19 amended: for every question Q and every starter code S that holds neither
\* the Format marker nor the opening of a python fence, extract_question on the
\* prompt built from them returns exactly (Q, S), S equal to the placeholder
\* being returned as absent; generate_fewshot_prompt emits the starter-code
\* block with exactly S when S is present and not empty, and the generic block
\* when S is absent or empty.
C19_RoundTripMarkerFree ==
    (FewshotFormatted /\ MarkerFree(fmtBuilt.starter_code)) =>
        /\ fmtExtracted = Recovered(fmtBuilt.question, fmtBuilt.starter_code)
        /\ fmtPrompt = Return(IF fmtBuilt.starter_code \in {Placeholder, ""}
                              THEN WithGenericBlock(fmtBuilt.question)
                              ELSE WithStarterBlock(fmtBuilt.question,
                                                    fmtBuilt.starter_code))

\* A question that itself holds the Format marker has been recovered together
\* with a starter code of two lines.
C19_Witness ==
    /\ FewshotFormatted
    /\ fmtBuilt.question = "Q\n\n### Format: x"
    /\ fmtBuilt.starter_code = "class Solution:\n    pass"
    /\ fmtExtracted = Return([question |-> "Q\n\n### Format: x",
                              start_code |-> Present("class Solution:\n    pass")])
    /\ fmtPrompt = Return(WithStarterBlock("Q\n\n### Format: x", "class Solution:\n    pass"))

(***************************************************************************)
(* Claims about the endpoint of the client's requests.                     *)
(***************************************************************************)

\* The process-wide default: the argument of the most recent set_endpoint call,
\* or the value taken from the environment when there was none.
ProcessDefault ==
    IF lastSet # Absent THEN TheValue(lastSet)
    ELSE IF environ # Absent THEN TheValue(environ)
    ELSE "http://localhost:8000"

\* The URL an operation of caller c is to post to.
TargetOf(c, e, o) ==
    (IF e # "" THEN e ELSE ProcessDefault)
    \o (CASE o = "run_code" -> "/run_code"
          [] o = "run_jupyter" -> "/run_jupyter"
          [] o \in {"submit", "submit_safe"} -> "/submit"
          [] o = "get_prompts" -> "/get_prompts"
          [] o = "get_prompt_by_id" -> "/get_prompt_by_id")

\* C20: every HTTP request of a client operation goes to the per-call endpoint
\* when it is not empty and otherwise to the process-wide default, the value of
\* the most recent set_endpoint call or the environment value when there was
\* none; every request of a call that passed an endpoint went to that endpoint,
\* whatever set_endpoint did meanwhile.
C20_RequestTarget ==
    /\ [][\A c \in Callers :
             requests'[c] # requests[c] =>
                 targets'[c] = Append(targets[c], TargetOf(c, endpoint'[c], op'[c]))]_vars
    /\ [](\A c \in Callers :
             endpoint[c] # "" =>
                 \A i \in 1..Len(targets[c]) : targets[c][i] = endpoint[c] \o Path(op[c]))

\* A retried call without an endpoint argument posted to the default and, after
\* set_endpoint ran during its backoff, to the new value, while a call that
\* passed an endpoint posted to it after set_endpoint had run.
C20_Witness ==
    /\ endpoint["c1"] = "" /\ op["c1"] = "run_code"
    /\ targets["c1"] = <<"http://localhost:8000/run_code", "http://b/run_code">>
    /\ lastSet = Present("http://b")
    /\ endpoint["c2"] = "http://a" /\ op["c2"] = "submit_safe"
    /\ targets["c2"] = <<"http://a/submit", "http://a/submit">>

(***************************************************************************)
(* Claims about concurrent calls (checked under Spec).                     *)
(***************************************************************************)

\* The attempt answered with reply succeeds for operation o.
AttemptSucceeds(o, reply) ==
    /\ reply.kind = "http" /\ reply.code = 200 /\ reply.body \in RunStatus
    /\ o \in {"run_code", "run_jupyter"} => reply.body # "SandboxError"

\* Where the call of caller c stands after an attempt, told from its own
\* operation, its own max_attempts, the number of its own requests and the
\* answer to its own latest request.
OwnStanding(o, m, k, reply) ==
    IF AttemptSucceeds(o, reply) THEN "returned"
    ELSE IF k < m THEN "sleep"
    ELSE IF o = "submit_safe" THEN "returned"
    ELSE "raised"

\* C21: under every interleaving of two calls, the number of attempts each call
\* makes and the point at which it gives up depend only on the outcomes of its
\* own attempts and its own max_attempts: a step of one call leaves the state of
\* the other call alone, and after each of its requests a call stands where its
\* own request count, max_attempts and latest answer put it.
C21_IndependentRetryState ==
    [][\A c \in Callers :
          requests'[c] # requests[c] =>
              /\ requests'[c] = requests[c] + 1
              /\ pc'[c] = OwnStanding(op[c], max_attempts[c], requests'[c], lastReply'[c])
              /\ \A d \in Callers \ {c} :
                    /\ pc'[d] = pc[d] /\ attempt_number'[d] = attempt_number[d]
                    /\ requests'[d] = requests[d] /\ log'[d] = log[d]
                    /\ outcome'[d] = outcome[d]
      ]_vars

\* One call has given up after its two attempts while the other, allowed three,
\* waits to retry after two failures of its own.
C21_Witness ==
    /\ op["c1"] = "run_code" /\ max_attempts["c1"] = 2
    /\ pc["c1"] = "raised" /\ requests["c1"] = 2
    /\ op["c2"] = "submit" /\ max_attempts["c2"] = 3
    /\ pc["c2"] = "sleep" /\ requests["c2"] = 2

(***************************************************************************)
(* Claims about the test loop of run_test (checked under SpecHarness).     *)
(***************************************************************************)

NotTrueEntries == {"False", "-1", "-2"}

\* res is k times true, optionally followed by one entry that is not true.
TruesThenOneOther(res) ==
    \/ AllTrue(res)
    \/ /\ Len(res) >= 1
       /\ AllTrue(SubSeq(res, 1, Len(res) - 1))
       /\ res[Len(res)] \in NotTrueEntries

\* C22: during run_test the results are one true per test case accepted so far,
\* in index order, optionally followed by a single final entry that is not true
\* (false, -1 or -2); the test cases are invoked in index order 0, 1, ...; once
\* an entry that is not true is appended no later test case is invoked; and
\* run_test returns an empty diagnostic only when results holds exactly one true
\* per test case of the sample.
C22_ResultsShape ==
    /\ TruesThenOneOther(results)
    /\ invoked = [k \in 1..Len(invoked) |-> k - 1]
    /\ Len(invoked) <= nTests
    /\ AllTrue(results) => /\ Len(results) <= Len(invoked)
                           /\ Len(invoked) <= Len(results) + 1
    /\ ~AllTrue(results) =>
          /\ hPc \in {"returned", "exited"}
          /\ invoked = <<>> \/ Len(invoked) = Len(results)
    /\ (RunTestReturned /\ metadata = EmptyMetadata) =>
          (Len(results) = nTests /\ AllTrue(results))

\* The first of two test cases was rejected: run_test returned with the single
\* entry false and the second test case was never invoked.
C22_Witness ==
    /\ nTests = 2 /\ hPc = "returned"
    /\ results = <<"False">> /\ invoked = <<0>>
    /\ metadata.error_message = "Wrong Answer"

(***************************************************************************)
(* Claims about the source transform (checked under SpecTransform).        *)
(***************************************************************************)

Assembled == srcNewTest # Absent

CandidateLines == SplitNewline(srcTest)

AssembledLines == SplitNewline(TheValue(srcNewTest))

HeaderLines == <<"stdin = sys.stdin", "stdout = sys.stdout", "def code():">>

ImportLine(x) ==
    \/ Len(x) >= 7 /\ SubSeq(x, 1, 7) = "import "
    \/ Len(x) >= 5 /\ SubSeq(x, 1, 5) = "from "

\* The candidate lines before which no line other than an import line occurs.
BeforeBlock(k) == \A j \in 1..k : ImportLine(CandidateLines[j])

\* The line of the assembled source that candidate line k has become: the three
\* header lines come in before the first line that is not an import line.
AssembledLine(k) == AssembledLines[IF BeforeBlock(k) THEN k ELSE k + 3]

ResolutionOver == built /\ hPc \notin {"compile", "getattr"}

\* The candidate source defines a class named Solution, in call-based mode.
ViaSolution == which_type = "call_based" /\ candidate.defines

\* The entry point the sentence names exists.
Resolvable == IF ViaSolution THEN candidate.method ELSE candidate.bare

UnableToExtract ==
    /\ RunTestReturned
    /\ results = <<"-2">>
    /\ metadata = [error_code |-> -1, error_message |-> "Unable to extract code"]
    /\ invoked = <<>>

\* C24: in call-based mode the entry point is the bare function fn_name unless
\* the candidate source defines a class named Solution, and then it is the
\* method fn_name of a Solution instance; in standard-input mode it is the
\* wrapped function code.  When that entry point exists the test cases are
\* entered with it; when it does not, run_test returns at once with results
\* [-2] and the diagnostic 'Unable to extract code', and no test case is run.
C24_EntryPointResolution ==
    ResolutionOver =>
        IF Resolvable
        THEN /\ tmp = IF ViaSolution THEN "instance" ELSE "module"
             /\ ~UnableToExtract
        ELSE UnableToExtract

\* The test cases the loop has gone through, in the order of the sample.
InvokedInOrder == invoked = [k \in 1..Len(invoked) |-> k - 1]

\* C25: whenever the driver process exits with status 0, the entry point was
\* invoked on every test case of the sample in index order, and every
\* invocation completed and had its result accepted; no behaviour of the
\* candidate at module build time or during a test call makes the process
\* exit 0 without that.
C25_AcceptanceSound ==
    (ProcessOver /\ exitCode = Present(0)) =>
        /\ hFault = NoFault
        /\ Len(invoked) = nTests
        /\ InvokedInOrder
        /\ Len(results) = nTests
        /\ AllTrue(results)

\* C26: at every return from run_test no alarm armed by run_test is pending.
C26_NoAlarmPendingAtReturn == RunTestReturned => ~alarm

(***************************************************************************)
(* A further claim about the MHPP prompt (checked under SpecPrompt).       *)
(***************************************************************************)

\* C27: for every content that contains no triple-quote marker the generated
\* prompt is the whole of content followed by the example tail made of the
\* first line of test; no character of content is dropped.
C27_NothingToTruncate ==
    (MHPPFormatted /\ Occurrences(fmtRow.content, TripleQuote) = {})
        => fmtPrompt = Return(fmtRow.content \o ExampleTail)

====
